---- MODULE Spec2Model ----
(***************************************************************************)
(* Verification model of the kakebo backend (src/api): the self-guarding   *)
(* schema migrations, the derived balance entry, the ledger CRUD/merge     *)
(* services with their HTTP handlers, the priority rankings of wishlist    *)
(* items and projects, savings accounts with their contributions, the      *)
(* debts with their monthly reduction and the progress of projects.        *)
(*                                                                         *)
(* Amounts are REAL columns in the store; the model uses exact integer     *)
(* arithmetic (think of minor currency units).  Dates are ISO strings      *)
(* "YYYY-MM-DD"; the model keeps them as <<year, month, day>> and compares *)
(* them field by field, which is the lexicographic order of the zero-      *)
(* padded strings.                                                         *)
(***************************************************************************)
EXTENDS Integers, Sequences, FiniteSets, TLC

VARIABLES
    \* ---- migration subsystem
    store,          \* the sqlite file as seen through the migration connection
    pc,             \* position of the migration run: Idle, 1..NSteps+1, Failed
    runs,           \* number of completed migration runs
    lastEnd,        \* store at the end of the latest completed run
    prevEnd,        \* store at the end of the run before that
    clean,          \* no row was written since the latest completed run
    immediate,      \* the run in progress (or the latest one) started in a clean store
    \* ---- ledger (income / fixed expense / actual expense tables)
    income, fixed, actual,
    seqIncome, seqFixed, seqActual,     \* sqlite_sequence of the three tables
    now,            \* wall clock month <<year, month>>
    recomputed,     \* months handed to update_balance_entry_for_month by the last request
    mergePc,        \* "idle" or "created": a merge between its two commits
    mergeIds,       \* ids of the merge in flight
    mergedId,       \* id of the row the merge in flight created
    \* ---- priorities
    wishlists, wishlist_items, projects, seqItems, seqProjects,
    \* ---- savings
    savings_accounts, contributions, seqAccounts, seqContributions,
    foreign_keys,   \* PRAGMA foreign_keys of the connections
    \* ---- debts
    debt_entries, seqDebts,
    \* ---- bookkeeping
    lastOp,         \* the last completed operation and its arguments
    ops             \* number of operations performed

migVars == <<store, pc, runs, lastEnd, prevEnd, clean, immediate>>
ledgerVars == <<income, fixed, actual, seqIncome, seqFixed, seqActual, now,
                recomputed, mergePc, mergeIds, mergedId>>
prioVars == <<wishlists, wishlist_items, projects, seqItems, seqProjects>>
savingsVars == <<savings_accounts, contributions, seqAccounts, seqContributions,
                 foreign_keys>>
debtVars == <<debt_entries, seqDebts>>
vars == <<migVars, ledgerVars, prioVars, savingsVars, debtVars, lastOp, ops>>

\* SQL NULL.  Integer columns hold positive integers, so 0 stands for NULL
\* there; every other column holds strings.
NULL == "NULL"
IntCols == {"id", "priority_order", "usage_count", "month", "year", "project_id",
            "savings_account_id", "wishlist_id", "linked_fixed_expense_id"}
Null(c) == IF c \in IntCols THEN 0 ELSE NULL

\* ---- bounds ------------------------------------------------------------
MaxOps == 2          \* requests per behaviour of the ledger behind its routers
MaxBalanceOps == 2   \* calls of update_balance_entry_for_month per behaviour
MaxMerges == 1       \* merges per behaviour
MaxPrioOps == 3      \* calls per behaviour of the rankings
MaxSavingsOps == 4   \* calls per behaviour of the savings accounts
MaxMergeCalls == 1   \* calls per behaviour of the merge services
MaxFixedDeletes == 2 \* deletions of fixed expenses per behaviour of the debt links
MaxDebtOps == 3      \* calls per behaviour of the debt services
MaxRows == 2         \* rows written between migration runs
MaxRuns == 3         \* migration runs per behaviour

\* ---- generic helpers ---------------------------------------------------
RECURSIVE SumSeq(_)
SumSeq(s) == IF s = <<>> THEN 0 ELSE Head(s) + SumSeq(Tail(s))

Max(S) == CHOOSE x \in S : \A y \in S : y <= x

Range(f) == {f[i] : i \in DOMAIN f}

(***************************************************************************)
(*                      PART 1: THE MIGRATION STEPS                        *)
(***************************************************************************)

\* A store is [tables, indexes, seq, err]:
\*   tables  : function from the names of the existing tables to
\*             [cols, uniq, rows]; cols are the column names of the CREATE
\*             statement, uniq the UNIQUE constraints (each a set of
\*             columns), rows a set of functions from cols to values;
\*   indexes : set of <<index name, table name>>;
\*   seq     : sqlite_sequence, a function from table names to the largest
\*             id ever allocated;
\*   err     : a statement raised (the exception propagates out of up()).
EmptyFcn == [x \in {} |-> NULL]

ColdStore == [tables |-> EmptyFcn, indexes |-> {}, seq |-> EmptyFcn, err |-> FALSE]

HasTable(s, t) == t \in DOMAIN s.tables

\* pragma_table_info(t): empty for a missing table
TableInfo(s, t) == IF HasTable(s, t) THEN s.tables[t].cols ELSE {}

HasIndex(s, i) == \E x \in s.indexes : x[1] = i

RowCount(s, t) == Cardinality(s.tables[t].rows)

Raise(s) == [s EXCEPT !.err = TRUE]

\* CREATE TABLE t (...)
CreateTable(s, t, cols, uniq) ==
    IF s.err THEN s
    ELSE IF HasTable(s, t) THEN Raise(s)
    ELSE [s EXCEPT !.tables = (t :> [cols |-> cols, uniq |-> uniq, rows |-> {}]) @@ @]

\* CREATE TABLE IF NOT EXISTS t (...)
CreateTableIfNotExists(s, t, cols, uniq) ==
    IF s.err \/ HasTable(s, t) THEN s ELSE CreateTable(s, t, cols, uniq)

\* DROP TABLE t: the table, its indexes and its sqlite_sequence row go
DropTable(s, t) ==
    IF s.err THEN s
    ELSE IF ~HasTable(s, t) THEN Raise(s)
    ELSE [s EXCEPT !.tables = [n \in DOMAIN @ \ {t} |-> @[n]],
                   !.indexes = {x \in @ : x[2] # t},
                   !.seq = [n \in DOMAIN @ \ {t} |-> @[n]]]

\* DROP TABLE IF EXISTS t
DropTableIfExists(s, t) ==
    IF s.err \/ ~HasTable(s, t) THEN s ELSE DropTable(s, t)

\* CREATE INDEX i ON t(...)
CreateIndex(s, i, t) ==
    IF s.err THEN s
    ELSE IF HasIndex(s, i) \/ ~HasTable(s, t) THEN Raise(s)
    ELSE [s EXCEPT !.indexes = @ \cup {<<i, t>>}]

\* CREATE INDEX IF NOT EXISTS i ON t(...)
CreateIndexIfNotExists(s, i, t) ==
    IF s.err \/ HasIndex(s, i) THEN s ELSE CreateIndex(s, i, t)

\* DROP INDEX i
DropIndex(s, i) ==
    IF s.err THEN s
    ELSE IF ~HasIndex(s, i) THEN Raise(s)
    ELSE [s EXCEPT !.indexes = {x \in @ : x[1] # i}]

\* ALTER TABLE t ADD COLUMN c [DEFAULT d]: existing rows read d
AddColumn(s, t, c, d) ==
    IF s.err THEN s
    ELSE IF ~HasTable(s, t) \/ c \in s.tables[t].cols THEN Raise(s)
    ELSE [s EXCEPT !.tables[t] =
            [cols |-> @.cols \cup {c},
             uniq |-> @.uniq,
             rows |-> {[k \in DOMAIN r \cup {c} |-> IF k = c THEN d ELSE r[k]] : r \in @.rows}]]

\* ALTER TABLE t RENAME COLUMN a TO b
RenameColumn(s, t, a, b) ==
    IF s.err THEN s
    ELSE IF ~HasTable(s, t) \/ a \notin s.tables[t].cols \/ b \in s.tables[t].cols THEN Raise(s)
    ELSE [s EXCEPT !.tables[t] =
            [cols |-> (@.cols \ {a}) \cup {b},
             uniq |-> {{IF c = a THEN b ELSE c : c \in u} : u \in @.uniq},
             rows |-> {[k \in (DOMAIN r \ {a}) \cup {b} |-> IF k = b THEN r[a] ELSE r[k]] : r \in @.rows}]]

\* ALTER TABLE a RENAME TO b: indexes and sqlite_sequence follow the table
RenameTable(s, a, b) ==
    IF s.err THEN s
    ELSE IF ~HasTable(s, a) \/ HasTable(s, b) THEN Raise(s)
    ELSE [s EXCEPT !.tables = (b :> @[a]) @@ [n \in DOMAIN @ \ {a} |-> @[n]],
                   !.indexes = {<<x[1], IF x[2] = a THEN b ELSE x[2]>> : x \in @},
                   !.seq = IF a \in DOMAIN @
                           THEN (b :> @[a]) @@ [n \in DOMAIN @ \ {a} |-> @[n]]
                           ELSE @]

\* UPDATE t SET c = v WHERE c IS NULL  (per row: v is a function of the row)
FillNulls(s, t, c, V(_)) ==
    IF s.err THEN s
    ELSE IF ~HasTable(s, t) \/ c \notin s.tables[t].cols THEN Raise(s)
    ELSE [s EXCEPT !.tables[t].rows =
            {IF r[c] = Null(c) THEN [r EXCEPT ![c] = V(r)] ELSE r : r \in @}]

MaxId(rows) == IF rows = {} THEN 0 ELSE Max({r["id"] : r \in rows})

SeqOf(s, t) == IF t \in DOMAIN s.seq THEN s.seq[t] ELSE 0

\* variant: the rows are stored without advancing the table's sequence
InsertRows_sequence_untouched(s, t, newRows) ==
    IF s.err THEN s
    ELSE IF ~HasTable(s, t) THEN Raise(s)
    ELSE LET tb == s.tables[t]
             all == tb.rows \cup newRows
             clash == \E r1 \in all, r2 \in all :
                         /\ r1 # r2
                         /\ \E u \in tb.uniq \cup {{"id"}} :
                               \A c \in u : r1[c] = r2[c] /\ r1[c] # Null(c)
         IN IF (\E r \in newRows : DOMAIN r # tb.cols) \/ clash THEN Raise(s)
            ELSE [s EXCEPT !.tables[t].rows = all]

\* INSERT of rows that carry their own id into an AUTOINCREMENT table:
\* sqlite_sequence is raised to the largest id inserted.  A row whose id
\* is already present, or whose UNIQUE column is, raises IntegrityError.
InsertRows(s, t, newRows) ==
    IF s.err THEN s
    ELSE IF ~HasTable(s, t) THEN Raise(s)
    ELSE LET tb == s.tables[t]
             all == tb.rows \cup newRows
             clash == \E r1 \in all, r2 \in all :
                         /\ r1 # r2
                         /\ \E u \in tb.uniq \cup {{"id"}} :
                               \A c \in u : r1[c] = r2[c] /\ r1[c] # Null(c)
         IN IF (\E r \in newRows : DOMAIN r # tb.cols) \/ clash THEN Raise(s)
            ELSE IF newRows = {} THEN s
            ELSE [s EXCEPT !.tables[t].rows = all,
                           !.seq = (t :> Max({SeqOf(s, t), MaxId(newRows)})) @@ @]

\* UPDATE sqlite_sequence SET seq = MAX(id) WHERE name = t, and the INSERT
\* into sqlite_sequence when that UPDATE touched no row
RepairSequence(s, t) ==
    IF s.err THEN s
    ELSE IF ~HasTable(s, t) THEN Raise(s)
    ELSE IF s.tables[t].rows = {} THEN s
    ELSE [s EXCEPT !.seq = (t :> MaxId(s.tables[t].rows)) @@ @]

\* DEFAULT clauses of the CREATE TABLE statements
ColumnDefault(c) ==
    CASE c = "currency" -> "EUR"
      [] c = "status" -> "Active"
      [] c = "usage_count" -> 1
      [] c \in {"created_at", "last_used_at"} -> "now"
      [] c = "purchased" -> "0"
      [] c = "initial_balance" -> "0"
      [] OTHER -> Null(c)

NextId(s, t) == Max({SeqOf(s, t), MaxId(s.tables[t].rows)}) + 1

\* INSERT INTO t (columns of vals) VALUES (...): the id is allocated by
\* AUTOINCREMENT, the columns left out take their DEFAULT
FullRow(s, t, vals) ==
    [c \in s.tables[t].cols |->
        IF c = "id" THEN NextId(s, t)
        ELSE IF c \in DOMAIN vals THEN vals[c] ELSE ColumnDefault(c)]

Insert(s, t, vals) ==
    IF s.err THEN s
    ELSE IF ~HasTable(s, t) \/ ~(DOMAIN vals \subseteq s.tables[t].cols) THEN Raise(s)
    ELSE InsertRows(s, t, {FullRow(s, t, vals)})

\* the same INSERT inside try / except sqlite3.IntegrityError: continue
InsertOrSkip(s, t, vals) ==
    IF s.err THEN s
    ELSE IF ~HasTable(s, t) \/ ~(DOMAIN vals \subseteq s.tables[t].cols) THEN Raise(s)
    ELSE LET r == InsertRows(s, t, {FullRow(s, t, vals)})
         IN IF r.err THEN s ELSE r

\* ---- column lists of the CREATE TABLE statements -----------------------
IncomeCols == {"id", "amount", "date", "item", "currency"}
FixedCols == {"id", "amount", "item", "currency", "month", "year"}
ActualCols == {"id", "amount", "date", "item", "category", "currency"}
DebtCols == {"id", "name", "initial_amount", "current_balance", "currency",
             "linked_fixed_expense_id", "notes", "created_at"}
OldProjectsCols == {"id", "name", "description", "target_amount", "target_date",
                    "priority", "category", "status", "savings_account_name",
                    "currency", "created_at", "updated_at"}
ProjectContributionsCols == {"id", "project_id", "amount", "date", "notes", "created_at"}
SavingsAccountsCols == {"id", "name", "initial_balance", "currency", "bank_institution",
                        "created_at", "updated_at"}
ContributionsCols == {"id", "savings_account_id", "amount", "date", "notes",
                      "created_at", "updated_at"}
NewProjectsCols == {"id", "name", "description", "target_amount", "status",
                    "savings_account_id", "currency", "created_at", "updated_at"}
AutocompleteCols == {"id", "field_path", "value", "usage_count", "last_used_at",
                     "created_at"}
SettingsCols == {"id", "key", "value", "created_at", "updated_at"}
WishlistsCols == {"id", "name", "description", "created_at", "updated_at"}
WishlistItemsNewCols == {"id", "wishlist_id", "name", "description", "amount", "currency",
                         "priority", "notes", "url", "url_preview_image", "uploaded_image",
                         "purchased", "purchased_at", "created_at", "updated_at"}
WishlistItemsCols == WishlistItemsNewCols \cup {"custom_order"}

\* ---- 001_initial_tables ------------------------------------------------
Up001(s) ==
    LET s1 == CreateTableIfNotExists(s, "income_entries", IncomeCols, {})
        s2 == CreateTableIfNotExists(s1, "fixed_expense_entries", FixedCols, {})
        s3 == CreateTableIfNotExists(s2, "actual_expense_entries", ActualCols, {})
    IN CreateTableIfNotExists(s3, "debt_entries", DebtCols, {})

\* ---- 002_add_currency_to_income ----------------------------------------
Up002(s) ==
    IF "currency" \notin TableInfo(s, "income_entries")
    THEN AddColumn(s, "income_entries", "currency", "EUR")
    ELSE s

\* ---- 003_add_month_year_to_fixed_expenses ------------------------------
\* datetime.now() at migration time
current_month == 11
current_year == 2026

Up003(s) ==
    IF "month" \notin TableInfo(s, "fixed_expense_entries")
    THEN LET s1 == AddColumn(s, "fixed_expense_entries", "month", Null("month"))
             s2 == AddColumn(s1, "fixed_expense_entries", "year", Null("year"))
             \* UPDATE ... SET month = ?, year = ? WHERE month IS NULL OR year IS NULL
             s3 == IF s2.err THEN s2
                   ELSE [s2 EXCEPT !.tables["fixed_expense_entries"].rows =
                          {IF r["month"] = 0 \/ r["year"] = 0
                           THEN [r EXCEPT !["month"] = current_month,
                                          !["year"] = current_year]
                           ELSE r : r \in @}]
         IN s3
    ELSE s

\* ---- 004_create_old_projects_tables ------------------------------------
Up004(s) ==
    LET s1 == CreateTableIfNotExists(s, "projects", OldProjectsCols,
                                     {{"savings_account_name"}})
        s2 == CreateTableIfNotExists(s1, "project_contributions",
                                     ProjectContributionsCols, {})
    IN CreateIndexIfNotExists(s2, "idx_project_contributions_project_id",
                              "project_contributions")

\* ---- 005_remove_unique_constraint_projects -----------------------------
\* 'SAVINGS_ACCOUNT_NAME' in table_sql and 'UNIQUE' in table_sql
HasUniqueConstraint(s) ==
    /\ HasTable(s, "projects")
    /\ "savings_account_name" \in s.tables["projects"].cols
    /\ s.tables["projects"].uniq # {}

Up005(s) ==
    IF HasUniqueConstraint(s)
    THEN IF RowCount(s, "projects") > 0
         THEN \* CREATE TABLE projects_backup AS SELECT * FROM projects
              LET old == s.tables["projects"]
                  s1 == IF HasTable(s, "projects_backup") THEN Raise(s)
                        ELSE [s EXCEPT !.tables =
                               ("projects_backup" :> [cols |-> old.cols, uniq |-> {},
                                                      rows |-> old.rows]) @@ @]
                  s2 == DropTable(s1, "projects")
                  s3 == CreateTable(s2, "projects", OldProjectsCols, {})
                  \* INSERT INTO projects (...) SELECT ... FROM projects_backup
                  s4 == IF s3.err THEN s3
                        ELSE IF ~(OldProjectsCols \subseteq old.cols) THEN Raise(s3)
                        ELSE InsertRows(s3, "projects",
                               {[c \in OldProjectsCols |-> r[c]] : r \in old.rows})
                  s5 == RepairSequence(s4, "projects")
              IN DropTable(s5, "projects_backup")
         ELSE CreateTable(DropTable(s, "projects"), "projects", OldProjectsCols, {})
    ELSE s

\* ---- 006_drop_old_projects_tables --------------------------------------
Up006(s) ==
    IF HasTable(s, "projects")
    THEN IF "savings_account_name" \in TableInfo(s, "projects")
         THEN DropTableIfExists(DropTableIfExists(s, "project_contributions"), "projects")
         ELSE s
    ELSE s

\* ---- 007_create_savings_accounts_and_contributions ---------------------
Up007(s) ==
    LET s1 == CreateTableIfNotExists(s, "savings_accounts", SavingsAccountsCols, {})
        s2 == CreateTableIfNotExists(s1, "contributions", ContributionsCols, {})
        s3 == CreateIndexIfNotExists(s2, "idx_contributions_savings_account_id",
                                     "contributions")
    IN CreateIndexIfNotExists(s3, "idx_contributions_date", "contributions")

\* ---- 008_create_new_projects_table -------------------------------------
Up008(s) ==
    LET s1 == CreateTableIfNotExists(s, "projects", NewProjectsCols, {})
        s2 == CreateIndexIfNotExists(s1, "idx_projects_status", "projects")
    IN CreateIndexIfNotExists(s2, "idx_projects_savings_account_id", "projects")

\* ---- 009_add_priority_order_to_projects --------------------------------
Up009(s) ==
    IF "priority_order" \notin TableInfo(s, "projects")
    THEN LET s1 == AddColumn(s, "projects", "priority_order", Null("priority_order"))
             \* UPDATE projects SET priority_order = id WHERE priority_order IS NULL
             ById(r) == r["id"]
             s2 == FillNulls(s1, "projects", "priority_order", ById)
             cols == NewProjectsCols \cup {"priority_order"}
             \* SELECT id, name, ... , priority_order FROM projects
             s3 == IF s2.err THEN s2
                   ELSE IF ~(cols \subseteq s2.tables["projects"].cols) THEN Raise(s2)
                   ELSE s2
             existing_data == IF s3.err THEN {}
                              ELSE {[c \in cols |-> r[c]] : r \in s3.tables["projects"].rows}
             s4 == DropTable(s3, "projects")
             s5 == CreateTable(s4, "projects", cols, {{"priority_order"}})
             s6 == CreateIndexIfNotExists(s5, "idx_projects_status", "projects")
             s7 == CreateIndexIfNotExists(s6, "idx_projects_savings_account_id", "projects")
             s8 == CreateIndexIfNotExists(s7, "idx_projects_priority_order", "projects")
             processed_data ==
                 {[r EXCEPT !["created_at"] = IF @ = NULL THEN "now" ELSE @,
                            !["currency"] = IF @ = NULL THEN "EUR" ELSE @] : r \in existing_data}
             s9 == InsertRows(s8, "projects", processed_data)
         IN RepairSequence(s9, "projects")
    ELSE s

\* ---- 010_create_autocomplete_suggestions -------------------------------
Up010(s) ==
    LET s1 == CreateTableIfNotExists(s, "autocomplete_suggestions", AutocompleteCols,
                                     {{"field_path", "value"}})
        s2 == CreateIndexIfNotExists(s1, "idx_autocomplete_field_path",
                                     "autocomplete_suggestions")
        s3 == CreateIndexIfNotExists(s2, "idx_autocomplete_field_path_value",
                                     "autocomplete_suggestions")
        s4 == CreateIndexIfNotExists(s3, "idx_autocomplete_usage_count",
                                     "autocomplete_suggestions")
    IN CreateIndexIfNotExists(s4, "idx_autocomplete_last_used_at",
                              "autocomplete_suggestions")

\* ---- 011_populate_autocomplete_from_existing_entries -------------------
\* item values written by the application, in the order of the store's
\* text comparison (BINARY collation: ' ' < 'a' < 'a ')
MigItems == <<" ", "a", "a ">>
ItemRank(v) == CHOOSE i \in 1..Len(MigItems) : MigItems[i] = v

\* str.strip()
Strip(v) == CASE v = " " -> "" [] v = "a " -> "a" [] OTHER -> v

\* SELECT item, COUNT(*) FROM t WHERE item IS NOT NULL AND item != '' GROUP BY item
GroupItems(rows) ==
    {<<v, Cardinality({r \in rows : r["item"] = v})>> :
        v \in {r["item"] : r \in rows} \ {NULL, ""}}

\* ORDER BY count DESC, item ASC
FirstGroup(G) ==
    CHOOSE g \in G : \A h \in G \ {g} :
        g[2] > h[2] \/ (g[2] = h[2] /\ ItemRank(g[1]) < ItemRank(h[1]))

RECURSIVE SortGroups(_)
SortGroups(G) ==
    IF G = {} THEN <<>>
    ELSE LET g == FirstGroup(G) IN <<g>> \o SortGroups(G \ {g})

\* for item, count in items: strip, skip the empty ones, INSERT (skipping
\* the rows that raise IntegrityError)
RECURSIVE InsertSuggestions(_, _, _)
InsertSuggestions(s, items, valsOf) ==
    IF items = <<>> THEN s
    ELSE LET g == Head(items)
         IN InsertSuggestions(
                IF Strip(g[1]) = "" THEN s
                ELSE InsertOrSkip(s, "autocomplete_suggestions", valsOf[g]),
                Tail(items), valsOf)

SuggestionRows(s) == s.tables["autocomplete_suggestions"].rows

Up011(s) ==
    LET field_path == "actual_expense_entries.item" IN
    IF ~HasTable(s, "autocomplete_suggestions") THEN s
    ELSE IF \E r \in SuggestionRows(s) : r["field_path"] = field_path THEN s
    ELSE IF ~HasTable(s, "actual_expense_entries") THEN s
    ELSE LET G == GroupItems(s.tables["actual_expense_entries"].rows)
             valsOf == [g \in G |-> [field_path |-> field_path, value |-> Strip(g[1]),
                                     usage_count |-> g[2], last_used_at |-> "now",
                                     created_at |-> "now"]]
         IN InsertSuggestions(s, SortGroups(G), valsOf)

\* ---- 012_add_entity_and_field_to_autocomplete --------------------------
\* try: ALTER TABLE ... ADD COLUMN c   except "duplicate column name": pass
AddColumnUnlessDuplicate(s, t, c) ==
    IF s.err THEN s
    ELSE IF HasTable(s, t) /\ c \in s.tables[t].cols THEN s
    ELSE AddColumn(s, t, c, NULL)

Up012(s) ==
    IF ~HasTable(s, "autocomplete_suggestions") THEN s
    ELSE LET s1 == AddColumnUnlessDuplicate(s, "autocomplete_suggestions", "entity")
             s2 == AddColumnUnlessDuplicate(s1, "autocomplete_suggestions", "field")
             s3 == CreateIndexIfNotExists(s2, "idx_autocomplete_entity",
                                          "autocomplete_suggestions")
             s4 == CreateIndexIfNotExists(s3, "idx_autocomplete_entity_field",
                                          "autocomplete_suggestions")
         IN CreateIndexIfNotExists(s4, "idx_autocomplete_entity_field_value",
                                   "autocomplete_suggestions")

\* ---- 013_populate_entity_and_field_from_field_path ---------------------
\* field_path.split('.', 1), or (field_path, '') without a dot
SplitFieldPath(fp) ==
    CASE fp = "actual_expense_entries.item" -> <<"actual_expense_entries", "item">>
      [] fp = "income_entries.item" -> <<"income_entries", "item">>
      [] OTHER -> <<fp, "">>

Up013(s) ==
    IF ~HasTable(s, "autocomplete_suggestions") THEN s
    ELSE IF ~({"entity", "field"} \subseteq TableInfo(s, "autocomplete_suggestions")) THEN s
    ELSE [s EXCEPT !.tables["autocomplete_suggestions"].rows =
            {IF r["field_path"] \notin {NULL, ""} /\ (r["entity"] = NULL \/ r["field"] = NULL)
             THEN [r EXCEPT !["entity"] = SplitFieldPath(r["field_path"])[1],
                            !["field"] = SplitFieldPath(r["field_path"])[2]]
             ELSE r : r \in @}]

\* ---- 014_populate_income_autocomplete ----------------------------------
Up014(s) ==
    LET entity == "income_entries"
        field == "item"
        field_path == "income_entries.item"
    IN
    IF ~HasTable(s, "autocomplete_suggestions") THEN s
    ELSE LET has_entity_field == {"entity", "field"} \subseteq
                                     TableInfo(s, "autocomplete_suggestions")
             existing == IF has_entity_field
                         THEN {r \in SuggestionRows(s) :
                                  r["entity"] = entity /\ r["field"] = field}
                         ELSE {r \in SuggestionRows(s) : r["field_path"] = field_path}
         IN IF existing # {} THEN s
            ELSE IF ~HasTable(s, "income_entries") THEN s
            ELSE LET G == GroupItems(s.tables["income_entries"].rows)
                     base == [g \in G |-> [field_path |-> field_path, value |-> Strip(g[1]),
                                           usage_count |-> g[2], last_used_at |-> "now",
                                           created_at |-> "now"]]
                     valsOf == IF has_entity_field
                               THEN [g \in G |-> [entity |-> entity, field |-> field,
                                                  field_path |-> field_path,
                                                  value |-> Strip(g[1]),
                                                  usage_count |-> g[2],
                                                  last_used_at |-> "now",
                                                  created_at |-> "now"]]
                               ELSE base
                 IN InsertSuggestions(s, SortGroups(G), valsOf)

\* ---- 016_create_settings_table -----------------------------------------
Up016(s) ==
    IF ~HasTable(s, "settings")
    THEN LET s1 == CreateTable(s, "settings", SettingsCols, {{"key"}})
             s2 == CreateIndex(s1, "idx_settings_key", "settings")
         IN Insert(s2, "settings", [key |-> "sizeable_item_threshold", value |-> "100.00"])
    ELSE s

\* ---- 017_create_wishlists_table ----------------------------------------
Up017(s) ==
    IF ~HasTable(s, "wishlists")
    THEN CreateTable(s, "wishlists", WishlistsCols, {})
    ELSE s

\* ---- 018_create_wishlist_items_table -----------------------------------
Up018(s) ==
    IF ~HasTable(s, "wishlist_items")
    THEN LET s1 == CreateTable(s, "wishlist_items", WishlistItemsCols, {})
             s2 == CreateIndex(s1, "idx_wishlist_items_wishlist_id", "wishlist_items")
             s3 == CreateIndex(s2, "idx_wishlist_items_purchased", "wishlist_items")
         IN CreateIndex(s3, "idx_wishlist_items_custom_order", "wishlist_items")
    ELSE s

\* ---- 019_remove_custom_order_from_wishlist_items -----------------------
Up019(s) ==
    IF ~HasTable(s, "wishlist_items") THEN s
    ELSE IF "custom_order" \notin TableInfo(s, "wishlist_items") THEN s
    ELSE LET s1 == IF HasIndex(s, "idx_wishlist_items_custom_order")
                   THEN DropIndex(s, "idx_wishlist_items_custom_order")
                   ELSE s
             s2 == CreateTable(s1, "wishlist_items_new", WishlistItemsNewCols, {})
             old == s.tables["wishlist_items"]
             \* INSERT INTO wishlist_items_new (...) SELECT ... FROM wishlist_items
             s3 == IF s2.err THEN s2
                   ELSE IF ~(WishlistItemsNewCols \subseteq old.cols) THEN Raise(s2)
                   ELSE InsertRows(s2, "wishlist_items_new",
                            {[c \in WishlistItemsNewCols |-> r[c]] : r \in old.rows})
             s4 == DropTable(s3, "wishlist_items")
             s5 == RenameTable(s4, "wishlist_items_new", "wishlist_items")
             s6 == CreateIndexIfNotExists(s5, "idx_wishlist_items_wishlist_id",
                                          "wishlist_items")
         IN CreateIndexIfNotExists(s6, "idx_wishlist_items_purchased", "wishlist_items")

\* ---- 020_rename_initial_balance_to_base_balance ------------------------
Up020(s) ==
    IF "initial_balance" \notin TableInfo(s, "savings_accounts") THEN s
    ELSE RenameColumn(s, "savings_accounts", "initial_balance", "base_balance")

\* ---- 021_drop_wishlist_tables ------------------------------------------
Up021(s) ==
    LET s1 == IF HasTable(s, "wishlist_items") THEN DropTable(s, "wishlist_items") ELSE s
    IN IF HasTable(s1, "wishlists") THEN DropTable(s1, "wishlists") ELSE s1

\* ---- the store left by the inlined init_db of db.py --------------------
\* (create the four ledger tables, add currency, add month/year, create the
\* old projects tables, remove the UNIQUE constraint)
LegacyStore == Up005(Up004(Up003(Up002(Up001(ColdStore)))))

\* ---- the migration run -------------------------------------------------
NSteps == 20

\* positions of the run other than a step number
Idle == 0

Failed == 0 - 1

\* what a run compares: tables with their columns and constraints, the
\* indexes, and the row count of every table
SchemaOf(s) ==
    [tables |-> [t \in DOMAIN s.tables |-> [cols |-> s.tables[t].cols,
                                             uniq |-> s.tables[t].uniq]],
     indexes |-> s.indexes]

RowCounts(s) == [t \in DOMAIN s.tables |-> RowCount(s, t)]

ledgerInit ==
    /\ income = {} /\ fixed = {} /\ actual = {}
    /\ seqIncome = 0 /\ seqFixed = 0 /\ seqActual = 0
    /\ recomputed = {}
    /\ mergePc = "idle" /\ mergeIds = <<>> /\ mergedId = 0

prioInit ==
    /\ wishlists = {1, 2}
    /\ wishlist_items = {} /\ projects = {}
    /\ seqItems = 0 /\ seqProjects = 0

savingsInit ==
    /\ savings_accounts = {} /\ contributions = {}
    /\ seqAccounts = 0 /\ seqContributions = 0

debtInit == debt_entries = {} /\ seqDebts = 0

InitMig ==
    /\ store \in {ColdStore, LegacyStore}
    /\ pc = Idle /\ runs = 0
    /\ lastEnd = ColdStore /\ prevEnd = ColdStore
    /\ clean = FALSE /\ immediate = FALSE
    /\ ledgerInit /\ now = <<2026, 1>>
    /\ prioInit
    /\ savingsInit /\ foreign_keys = FALSE
    /\ debtInit
    /\ lastOp = [name |-> "init"] /\ ops = 0

otherThanMig == <<ledgerVars, prioVars, savingsVars, debtVars>>

\* process startup: the run begins with the first step
StartRun ==
    /\ pc = Idle /\ runs < MaxRuns
    /\ pc' = 1
    /\ immediate' = clean
    /\ lastOp' = [name |-> "start_run"]
    /\ UNCHANGED <<store, runs, lastEnd, prevEnd, clean, ops, otherThanMig>>

\* step k of the run applies up() of migration k; an exception aborts the run
MigStep(k, result, step) ==
    /\ pc = k
    /\ store' = result
    /\ pc' = IF result.err THEN Failed ELSE k + 1
    /\ lastOp' = [name |-> step]
    /\ UNCHANGED <<runs, lastEnd, prevEnd, clean, immediate, ops, otherThanMig>>

M001 == MigStep(1, Up001(store), "001")
M002 == MigStep(2, Up002(store), "002")
M003 == MigStep(3, Up003(store), "003")
M004 == MigStep(4, Up004(store), "004")
M005 == MigStep(5, Up005(store), "005")
M006 == MigStep(6, Up006(store), "006")
M007 == MigStep(7, Up007(store), "007")
M008 == MigStep(8, Up008(store), "008")
M009 == MigStep(9, Up009(store), "009")
M010 == MigStep(10, Up010(store), "010")
M011 == MigStep(11, Up011(store), "011")
M012 == MigStep(12, Up012(store), "012")
M013 == MigStep(13, Up013(store), "013")
M014 == MigStep(14, Up014(store), "014")
M016 == MigStep(15, Up016(store), "016")
M017 == MigStep(16, Up017(store), "017")
M018 == MigStep(17, Up018(store), "018")
M019 == MigStep(18, Up019(store), "019")
M020 == MigStep(19, Up020(store), "020")
M021 == MigStep(20, Up021(store), "021")

\* variant: the commit is also issued after a step has raised
EndRun_after_failure ==
    /\ pc \in {NSteps + 1, Failed}
    /\ pc' = Idle
    /\ runs' = runs + 1
    /\ prevEnd' = lastEnd
    /\ lastEnd' = store
    /\ clean' = TRUE
    /\ lastOp' = [name |-> "end_run"]
    /\ UNCHANGED <<store, immediate, ops, otherThanMig>>

\* every step succeeded: commit, the application starts serving
EndRun ==
    /\ pc = NSteps + 1
    /\ pc' = Idle
    /\ runs' = runs + 1
    /\ prevEnd' = lastEnd
    /\ lastEnd' = store
    /\ clean' = TRUE
    /\ lastOp' = [name |-> "end_run"]
    /\ UNCHANGED <<store, immediate, ops, otherThanMig>>

\* the running application writes a ledger row (create_income_entry,
\* create_actual_expense_entry)
AppInsertEntry ==
    /\ pc = Idle /\ ops < MaxRows
    /\ \E t \in {"income_entries", "actual_expense_entries"}, item \in Range(MigItems) :
          /\ HasTable(store, t)
          /\ LET r == Insert(store, t, [item |-> item]) IN
                /\ ~r.err
                /\ store' = r
          /\ lastOp' = [name |-> "app_insert", table |-> t]
    /\ clean' = FALSE
    /\ ops' = ops + 1
    /\ UNCHANGED <<pc, runs, lastEnd, prevEnd, immediate, otherThanMig>>

\* the running application writes a project row (create_project on the
\* current shape, the legacy create on the old one)
AppInsertProject ==
    /\ pc = Idle /\ ops < MaxRows
    /\ HasTable(store, "projects")
    /\ LET vals == IF "priority_order" \in TableInfo(store, "projects")
                   THEN [name |-> "p", priority_order |-> NextId(store, "projects")]
                   ELSE IF "savings_account_name" \in TableInfo(store, "projects")
                   THEN [name |-> "p", savings_account_name |-> "acc"]
                   ELSE [name |-> "p"]
           r == Insert(store, "projects", vals)
       IN /\ ~r.err
          /\ store' = r
    /\ lastOp' = [name |-> "app_insert", table |-> "projects"]
    /\ clean' = FALSE
    /\ ops' = ops + 1
    /\ UNCHANGED <<pc, runs, lastEnd, prevEnd, immediate, otherThanMig>>

NextMig ==
    \/ StartRun
    \/ M001 \/ M002 \/ M003 \/ M004 \/ M005 \/ M006 \/ M007 \/ M008 \/ M009 \/ M010
    \/ M011 \/ M012 \/ M013 \/ M014 \/ M016 \/ M017 \/ M018 \/ M019 \/ M020 \/ M021
    \/ EndRun
    \/ AppInsertEntry
    \/ AppInsertProject

SpecMig == InitMig /\ [][NextMig]_vars

\* C1: a run that starts right after a completed run ends with the tables,
\* columns, indexes and row counts that the completed run left.
C1_MigrationIdempotent ==
    (pc = Idle /\ runs >= 2 /\ immediate)
        => /\ SchemaOf(lastEnd) = SchemaOf(prevEnd)
           /\ RowCounts(lastEnd) = RowCounts(prevEnd)

(***************************************************************************)
(*                          PART 2: THE LEDGER                             *)
(***************************************************************************)

\* ---- inputs of the requests --------------------------------------------
Months == {<<2025, 12>>, <<2026, 1>>}

Days == {1, 2}

Dates == {<<m[1], m[2], day>> : m \in Months, day \in Days}

Amounts == {0 - 1, 1, 2}

Items == {"a"}

\* the three tables and their sequences as one value, so that a handler can
\* thread it through the services it calls; err: the call raised;
\* calls: the months handed to update_balance_entry_for_month so far
DB ==
    [income |-> income, fixed |-> fixed, actual |-> actual,
     seqIncome |-> seqIncome, seqFixed |-> seqFixed, seqActual |-> seqActual,
     err |-> FALSE, calls |-> {}]

Min(S) == CHOOSE x \in S : \A y \in S : x <= y

IdsOf(rows) == {r.id : r \in rows}

RowOf(rows, id) == CHOOSE r \in rows : r.id = id

\* a payload field that was provided, or the fallback
Given(payload, f, fallback) == IF f \in DOMAIN payload THEN payload[f] ELSE fallback

\* ---- utils/month_utils.py ----------------------------------------------
\* date_str[:7]
extract_month_from_date(date) == <<date[1], date[2]>>

\* f"{month}-01"
FirstDayOf(month) == <<month[1], month[2], 1>>

\* f"{year}-{month:02d}"
MonthStr(year, month) == <<year, month>>

\* the string "YYYY-MM" itself, used by the fallback label
MonthText(month) ==
    ToString(month[1]) \o "-" \o (IF month[2] < 10 THEN "0" ELSE "") \o ToString(month[2])

month_names ==
    <<"January", "February", "March", "April", "May", "June",
      "July", "August", "September", "October", "November", "December">>

format_month_name_for_balance(month) ==
    IF 1 <= month[2] /\ month[2] <= 12
    THEN month_names[month[2]] \o " " \o ToString(month[1]) \o " balance"
    ELSE MonthText(month) \o " balance"

\* the last day of the month before the first day of the current month
get_previous_month ==
    IF now[2] = 1 THEN <<now[1] - 1, 12>> ELSE <<now[1], now[2] - 1>>

is_previous_month(month) == month = get_previous_month

\* validators/month_validator.py: "YYYY-MM" with a month number in 01..12
validate_month_format(month) == 1 <= month[2] /\ month[2] <= 12

\* order of two ISO date strings
DateLeq(a, b) ==
    \/ a[1] < b[1]
    \/ a[1] = b[1] /\ a[2] < b[2]
    \/ a[1] = b[1] /\ a[2] = b[2] /\ a[3] <= b[3]

\* ---- utils/merge_utils.py ----------------------------------------------
\* variant: the ids that are not stored are skipped instead of refused
validate_and_fetch_entries_skipping(rows, entry_ids) ==
    LET found == SelectSeq(entry_ids, LAMBDA i : i \in IdsOf(rows)) IN
    IF Len(entry_ids) < 2 \/ found = <<>>
    THEN [err |-> TRUE, entries |-> <<>>]
    ELSE [err |-> FALSE, entries |-> [i \in 1..Len(found) |-> RowOf(rows, found[i])]]

\* the rows of the ids as listed, or the call raises (fewer than 2 ids, or
\* an id not found)
validate_and_fetch_entries(rows, entry_ids) ==
    IF Len(entry_ids) < 2 \/ \E i \in 1..Len(entry_ids) : entry_ids[i] \notin IdsOf(rows)
    THEN [err |-> TRUE, entries |-> <<>>]
    ELSE [err |-> FALSE,
          entries |-> [i \in 1..Len(entry_ids) |-> RowOf(rows, entry_ids[i])]]

RECURSIVE JoinItems(_)
\* ", ".join(item for the entries whose item is not empty)
JoinItems(entries) ==
    IF entries = <<>> THEN ""
    ELSE LET rest == JoinItems(Tail(entries))
             item == Head(entries).item
         IN IF item = "" THEN rest
            ELSE IF rest = "" THEN item
            ELSE item \o ", " \o rest

calculate_common_merged_values(entries) ==
    [amount |-> SumSeq([i \in 1..Len(entries) |-> entries[i].amount]),
     items |-> JoinItems(entries),
     currency |-> entries[1].currency]

\* ---- services/income_entries_services.py -------------------------------
bulk_delete_income_entries(d, entry_ids) ==
    IF entry_ids = <<>> THEN d
    ELSE [d EXCEPT !.income = {r \in @ : r.id \notin Range(entry_ids)}]

\* the fetched rows come back in rowid order: the first one has the least id
bulk_update_income_entries(d, entry_ids, entry_update) ==
    LET existing_entries == {r \in d.income : r.id \in Range(entry_ids)} IN
    IF entry_ids = <<>> \/ existing_entries = {} THEN d
    ELSE LET first_existing == RowOf(existing_entries, Min(IdsOf(existing_entries)))
             amount == Given(entry_update, "amount", first_existing.amount)
             date == Given(entry_update, "date", first_existing.date)
             item == Given(entry_update, "item", first_existing.item)
             currency == Given(entry_update, "currency", first_existing.currency)
         IN [d EXCEPT !.income =
                {IF r.id \in Range(entry_ids)
                 THEN [id |-> r.id, amount |-> amount, date |-> date, item |-> item,
                       currency |-> currency]
                 ELSE r : r \in @}]

create_income_entry(d, entry) ==
    IF entry.amount < 0 THEN [d EXCEPT !.err = TRUE]
    ELSE [d EXCEPT !.income = @ \cup {[id |-> d.seqIncome + 1, amount |-> entry.amount,
                                       date |-> entry.date, item |-> entry.item,
                                       currency |-> entry.currency]},
                   !.seqIncome = @ + 1]

delete_income_entry(d, entry_id) ==
    [d EXCEPT !.income = {r \in @ : r.id # entry_id}]

\* date LIKE 'YYYY-MM%'
get_all_income_entries_by_month(d, month) ==
    {r \in d.income : extract_month_from_date(r.date) = month}

update_income_entry(d, entry_id, entry_update, existing) ==
    [d EXCEPT !.income =
        {IF r.id = entry_id
         THEN [id |-> r.id,
               amount |-> Given(entry_update, "amount", existing.amount),
               date |-> Given(entry_update, "date", existing.date),
               item |-> Given(entry_update, "item", existing.item),
               currency |-> Given(entry_update, "currency", existing.currency)]
         ELSE r : r \in @}]

\* max(entry["date"] for entry in entries)
MaxDate(entries) ==
    LET ds == {entries[i].date : i \in 1..Len(entries)}
    IN CHOOSE x \in ds : \A y \in ds : DateLeq(y, x)

\* the entry merge_income_entries creates out of the fetched rows
MergedIncomeEntry(entries) ==
    LET common_values == calculate_common_merged_values(entries)
    IN [amount |-> common_values.amount, date |-> MaxDate(entries),
        item |-> common_values.items, currency |-> common_values.currency]

merge_income_entries(d, entry_ids) ==
    LET fetched == validate_and_fetch_entries(d.income, entry_ids) IN
    IF fetched.err THEN [d EXCEPT !.err = TRUE]
    ELSE LET created == create_income_entry(d, MergedIncomeEntry(fetched.entries))
         IN IF created.err THEN created
            ELSE bulk_delete_income_entries(created, entry_ids)

\* ---- services/fixed_expense_entries_services.py ------------------------
bulk_delete_fixed_expense_entries(d, entry_ids) ==
    IF entry_ids = <<>> THEN d
    ELSE [d EXCEPT !.fixed = {r \in @ : r.id \notin Range(entry_ids)}]

bulk_update_fixed_expense_entries(d, entry_ids, entry_update) ==
    LET existing_entries == {r \in d.fixed : r.id \in Range(entry_ids)} IN
    IF entry_ids = <<>> \/ existing_entries = {} THEN d
    ELSE LET first_existing == RowOf(existing_entries, Min(IdsOf(existing_entries)))
             amount == Given(entry_update, "amount", first_existing.amount)
             item == Given(entry_update, "item", first_existing.item)
             currency == Given(entry_update, "currency", first_existing.currency)
             month == Given(entry_update, "month", first_existing.month)
             year == Given(entry_update, "year", first_existing.year)
         IN [d EXCEPT !.fixed =
                {IF r.id \in Range(entry_ids)
                 THEN [id |-> r.id, amount |-> amount, item |-> item,
                       currency |-> currency, month |-> month, year |-> year]
                 ELSE r : r \in @}]

\* month and year default to the wall clock when the payload omits them
create_fixed_expense_entry(d, entry) ==
    IF entry.amount < 0 THEN [d EXCEPT !.err = TRUE]
    ELSE [d EXCEPT !.fixed = @ \cup {[id |-> d.seqFixed + 1, amount |-> entry.amount,
                                      item |-> entry.item, currency |-> entry.currency,
                                      month |-> Given(entry, "month", now[2]),
                                      year |-> Given(entry, "year", now[1])]},
                   !.seqFixed = @ + 1]

delete_fixed_expense_entry(d, entry_id) ==
    [d EXCEPT !.fixed = {r \in @ : r.id # entry_id}]

\* WHERE month = ? AND year = ?
get_all_fixed_expense_entries_by_month(d, month) ==
    {r \in d.fixed : r.month = month[2] /\ r.year = month[1]}

update_fixed_expense_entry(d, entry_id, entry_update, existing) ==
    [d EXCEPT !.fixed =
        {IF r.id = entry_id
         THEN [id |-> r.id,
               amount |-> Given(entry_update, "amount", existing.amount),
               item |-> Given(entry_update, "item", existing.item),
               currency |-> Given(entry_update, "currency", existing.currency),
               month |-> Given(entry_update, "month", existing.month),
               year |-> Given(entry_update, "year", existing.year)]
         ELSE r : r \in @}]

\* max(entries, key=(year, month)): the first of the entries with the
\* greatest key
MostRecentEntry(entries) ==
    LET later(a, b) == a.year > b.year \/ (a.year = b.year /\ a.month > b.month)
        i == CHOOSE k \in 1..Len(entries) :
                /\ \A j \in 1..Len(entries) : ~later(entries[j], entries[k])
                /\ \A j \in 1..(k - 1) : later(entries[k], entries[j])
    IN entries[i]

MergedFixedExpenseEntry(entries) ==
    LET common_values == calculate_common_merged_values(entries)
        most_recent_entry == MostRecentEntry(entries)
    IN [amount |-> common_values.amount, item |-> common_values.items,
        currency |-> common_values.currency,
        month |-> most_recent_entry.month, year |-> most_recent_entry.year]

merge_fixed_expense_entries(d, entry_ids) ==
    LET fetched == validate_and_fetch_entries(d.fixed, entry_ids) IN
    IF fetched.err THEN [d EXCEPT !.err = TRUE]
    ELSE LET created == create_fixed_expense_entry(d, MergedFixedExpenseEntry(fetched.entries))
         IN IF created.err THEN created
            ELSE bulk_delete_fixed_expense_entries(created, entry_ids)

\* ---- services/actual_expense_entries_services.py -----------------------
create_actual_expense_entry(d, entry) ==
    IF entry.amount < 0 THEN [d EXCEPT !.err = TRUE]
    ELSE [d EXCEPT !.actual = @ \cup {[id |-> d.seqActual + 1, amount |-> entry.amount,
                                       date |-> entry.date, item |-> entry.item,
                                       category |-> entry.category,
                                       currency |-> entry.currency]},
                   !.seqActual = @ + 1]

delete_actual_expense_entry(d, entry_id) ==
    [d EXCEPT !.actual = {r \in @ : r.id # entry_id}]

get_all_actual_expense_entries_by_month(d, month) ==
    {r \in d.actual : extract_month_from_date(r.date) = month}

\* ---- services/available_cash_services.py -------------------------------
RECURSIVE SumAmounts(_)
\* sum(entry["amount"] for entry in entries)
SumAmounts(entries) ==
    IF entries = {} THEN 0
    ELSE LET e == CHOOSE x \in entries : TRUE
         IN e.amount + SumAmounts(entries \ {e})

\* variant: the actual expenses are left out of the total
calculate_available_cash_without_actual(d, month) ==
    IF ~validate_month_format(month) THEN [err |-> TRUE, available_cash |-> 0]
    ELSE LET total_income == SumAmounts(get_all_income_entries_by_month(d, month))
             total_fixed_expenses == SumAmounts(get_all_fixed_expense_entries_by_month(d, month))
             total_expenses == total_fixed_expenses
         IN [err |-> FALSE, available_cash |-> total_income - total_expenses]

calculate_available_cash(d, month) ==
    IF ~validate_month_format(month) THEN [err |-> TRUE, available_cash |-> 0]
    ELSE LET total_income == SumAmounts(get_all_income_entries_by_month(d, month))
             total_fixed_expenses == SumAmounts(get_all_fixed_expense_entries_by_month(d, month))
             total_actual_expenses == SumAmounts(get_all_actual_expense_entries_by_month(d, month))
             total_expenses == total_fixed_expenses + total_actual_expenses
         IN [err |-> FALSE, available_cash |-> total_income - total_expenses]

\* ---- services/balance_entry_services.py --------------------------------
\* fetchone(): the row of least rowid among those carrying the label
find_balance_entry_by_month(d, month, is_income) ==
    LET balance_item_name == format_month_name_for_balance(month)
        found == {r \in (IF is_income THEN d.income ELSE d.actual) :
                      r.item = balance_item_name}
    IN IF found = {} THEN {} ELSE {RowOf(found, Min(IdsOf(found)))}

Abs(x) == IF x < 0 THEN 0 - x ELSE x

\* variant: a deficit is filed under the category of everyday expenses
create_or_update_balance_entry_essential(d, month, available_cash) ==
    IF available_cash = 0 THEN d
    ELSE LET balance_item_name == format_month_name_for_balance(month)
             date_str == FirstDayOf(month)
             amount == Abs(available_cash)
             existing == find_balance_entry_by_month(d, month, available_cash > 0)
             retouch(rows) == {IF r \in existing
                               THEN [r EXCEPT !.amount = amount, !.date = date_str]
                               ELSE r : r \in rows}
         IN IF available_cash > 0
            THEN IF existing # {}
                 THEN [d EXCEPT !.income = retouch(@)]
                 ELSE create_income_entry(d, [amount |-> amount, date |-> date_str,
                                              item |-> balance_item_name,
                                              currency |-> "EUR"])
            ELSE IF existing # {}
                 THEN [d EXCEPT !.actual = retouch(@)]
                 ELSE create_actual_expense_entry(d, [amount |-> amount, date |-> date_str,
                                                      item |-> balance_item_name,
                                                      category |-> "essential",
                                                      currency |-> "EUR"])

create_or_update_balance_entry(d, month, available_cash) ==
    IF available_cash = 0 THEN d
    ELSE LET balance_item_name == format_month_name_for_balance(month)
             date_str == FirstDayOf(month)
             amount == Abs(available_cash)
             existing == find_balance_entry_by_month(d, month, available_cash > 0)
             retouch(rows) == {IF r \in existing
                               THEN [r EXCEPT !.amount = amount, !.date = date_str]
                               ELSE r : r \in rows}
         IN IF available_cash > 0
            THEN IF existing # {}
                 THEN [d EXCEPT !.income = retouch(@)]
                 ELSE create_income_entry(d, [amount |-> amount, date |-> date_str,
                                              item |-> balance_item_name,
                                              currency |-> "EUR"])
            ELSE IF existing # {}
                 THEN [d EXCEPT !.actual = retouch(@)]
                 ELSE create_actual_expense_entry(d, [amount |-> amount, date |-> date_str,
                                                      item |-> balance_item_name,
                                                      category |-> "unforeseen",
                                                      currency |-> "EUR"])

\* variant: a month whose cash is zero loses its balance entries
update_balance_entry_for_month_clearing(d, month) ==
    LET result == calculate_available_cash(d, month)
        called == [d EXCEPT !.calls = @ \cup {month}]
    IN IF result.err THEN called
       ELSE IF result.available_cash = 0
       THEN [called EXCEPT !.income = @ \ find_balance_entry_by_month(d, month, TRUE),
                           !.actual = @ \ find_balance_entry_by_month(d, month, FALSE)]
       ELSE create_or_update_balance_entry(called, month, result.available_cash)

\* any exception is swallowed: the store is as the failing call left it
update_balance_entry_for_month(d, month) ==
    LET result == calculate_available_cash(d, month)
        called == [d EXCEPT !.calls = @ \cup {month}]
    IN IF result.err THEN called
       ELSE create_or_update_balance_entry(called, month, result.available_cash)

RECURSIVE UpdateBalanceForMonths(_, _)
\* for month in months_to_update: update_balance_entry_for_month(month)
UpdateBalanceForMonths(d, months_to_update) ==
    IF months_to_update = {} THEN d
    ELSE LET month == CHOOSE m \in months_to_update : TRUE
         IN UpdateBalanceForMonths(update_balance_entry_for_month(d, month),
                                   months_to_update \ {month})

\* ---- the requests ------------------------------------------------------
IncomeUpdates == {[amount |-> a] : a \in Amounts} \cup {[date |-> x] : x \in Dates}

FixedUpdates ==
    {[amount |-> a] : a \in Amounts} \cup {[month |-> m[2], year |-> m[1]] : m \in Months}

\* id lists of a bulk request: the stored ids and one that is not stored
IdLists(rows, seq) ==
    UNION {[1..k -> IdsOf(rows) \cup {seq + 1}] : k \in 0..2}

MonthsOfDated(rows) == {extract_month_from_date(r.date) : r \in rows}

MonthsOfFixed(rows) == {MonthStr(r.year, r.month) : r \in rows}

\* every service call commits on its own connection: what the request leaves
\* is what its calls wrote
Commit(d) ==
    /\ income' = d.income /\ fixed' = d.fixed /\ actual' = d.actual
    /\ seqIncome' = d.seqIncome /\ seqFixed' = d.seqFixed /\ seqActual' = d.seqActual
    /\ recomputed' = d.calls

\* a request that ran to its response. before/after: the months the targeted
\* entries belonged to before and after the mutation
Request(name, status, d, before, after) ==
    /\ ops < MaxOps /\ mergePc = "idle"
    /\ Commit(d)
    /\ lastOp' = [name |-> name, status |-> status, before |-> before, after |-> after]
    /\ ops' = ops + 1
    /\ UNCHANGED <<now, mergePc, mergeIds, mergedId, migVars, prioVars, savingsVars, debtVars>>

PreviousOf(months) == {m \in months : is_previous_month(m)}

\* ---- routers/income_entries_router.py ----------------------------------
IncomeRouter_create_entry ==
    \E amount \in Amounts, date \in Dates, item \in Items :
        LET entry == [amount |-> amount, date |-> date, item |-> item, currency |-> "EUR"]
            created == create_income_entry(DB, entry)
            month == extract_month_from_date(entry.date)
        IN IF created.err
           THEN Request("income.create_entry", 400, DB, {}, {})
           ELSE Request("income.create_entry", 201,
                        IF is_previous_month(month)
                        THEN update_balance_entry_for_month(created, month)
                        ELSE created,
                        {}, {month})

IncomeRouter_update_entry ==
    \E entry_id \in 1..(seqIncome + 1), entry_update \in IncomeUpdates :
        IF entry_id \notin IdsOf(income)
        THEN Request("income.update_entry", 404, DB, {}, {})
        ELSE LET existing == RowOf(income, entry_id)
                 updated == update_income_entry(DB, entry_id, entry_update, existing)
                 date_to_check == Given(entry_update, "date", existing.date)
                 month == extract_month_from_date(date_to_check)
             IN Request("income.update_entry", 200,
                        IF is_previous_month(month)
                        THEN update_balance_entry_for_month(updated, month)
                        ELSE updated,
                        {extract_month_from_date(existing.date)}, {month})

IncomeRouter_bulk_delete_entries ==
    \E entry_ids \in IdLists(income, seqIncome) :
        LET existing_entries == {r \in income : r.id \in Range(entry_ids)}
            deleted == bulk_delete_income_entries(DB, entry_ids)
            months_to_update == PreviousOf(MonthsOfDated(existing_entries))
        IN IF entry_ids = <<>>
           THEN Request("income.bulk_delete_entries", 400, DB, {}, {})
           ELSE IF existing_entries = {}
           THEN Request("income.bulk_delete_entries", 404, DB, {}, {})
           ELSE Request("income.bulk_delete_entries", 200,
                        UpdateBalanceForMonths(deleted, months_to_update),
                        MonthsOfDated(existing_entries), {})

\* the months are read from the rows as the update left them
IncomeRouter_bulk_update_entries ==
    \E entry_ids \in IdLists(income, seqIncome), entry_update \in IncomeUpdates :
        LET targeted == {r \in income : r.id \in Range(entry_ids)}
            updated == bulk_update_income_entries(DB, entry_ids, entry_update)
            existing_after == {r \in updated.income : r.id \in Range(entry_ids)}
            months_to_update ==
                PreviousOf({extract_month_from_date(Given(entry_update, "date", r.date)) :
                                r \in existing_after})
        IN IF entry_ids = <<>>
           THEN Request("income.bulk_update_entries", 400, DB, {}, {})
           ELSE IF targeted = {}
           THEN Request("income.bulk_update_entries", 500, DB, {}, {})
           ELSE Request("income.bulk_update_entries", 200,
                        UpdateBalanceForMonths(updated, months_to_update),
                        MonthsOfDated(targeted), MonthsOfDated(existing_after))

IncomeRouter_merge_entries ==
    \E entry_ids \in IdLists(income, seqIncome) :
        LET existing_entries == {r \in income : r.id \in Range(entry_ids)}
            merged == merge_income_entries(DB, entry_ids)
            merged_month ==
                extract_month_from_date(RowOf(merged.income, merged.seqIncome).date)
            months_to_update ==
                PreviousOf(MonthsOfDated(existing_entries) \cup {merged_month})
        IN IF Len(entry_ids) < 2
           THEN Request("income.merge_entries", 400, DB, {}, {})
           ELSE IF existing_entries = {}
           THEN Request("income.merge_entries", 500, DB, {}, {})
           ELSE IF merged.err
           THEN Request("income.merge_entries", 400, DB, {}, {})
           ELSE Request("income.merge_entries", 200,
                        UpdateBalanceForMonths(merged, months_to_update),
                        MonthsOfDated(existing_entries), {merged_month})

IncomeRouter_delete_entry ==
    \E entry_id \in 1..(seqIncome + 1) :
        IF entry_id \notin IdsOf(income)
        THEN Request("income.delete_entry", 404, DB, {}, {})
        ELSE LET existing == RowOf(income, entry_id)
                 deleted == delete_income_entry(DB, entry_id)
                 month == extract_month_from_date(existing.date)
             IN Request("income.delete_entry", 200,
                        IF is_previous_month(month)
                        THEN update_balance_entry_for_month(deleted, month)
                        ELSE deleted,
                        {month}, {})

\* ---- routers/fixed_expense_entries_router.py ---------------------------
\* the payload names a month and a year, or leaves both to the wall clock
FixedCreates ==
    {[amount |-> a, item |-> i, currency |-> "EUR", month |-> m[2], year |-> m[1]] :
        a \in Amounts, i \in Items, m \in Months}
    \cup {[amount |-> a, item |-> i, currency |-> "EUR"] : a \in Amounts, i \in Items}

FixedRouter_create_entry ==
    \E entry \in FixedCreates :
        LET created == create_fixed_expense_entry(DB, entry)
            row == RowOf(created.fixed, created.seqFixed)
            month_str == MonthStr(row.year, row.month)
        IN IF created.err
           THEN Request("fixed.create_entry", 400, DB, {}, {})
           ELSE Request("fixed.create_entry", 201,
                        IF is_previous_month(month_str)
                        THEN update_balance_entry_for_month(created, month_str)
                        ELSE created,
                        {}, {month_str})

FixedRouter_update_entry ==
    \E entry_id \in 1..(seqFixed + 1), entry_update \in FixedUpdates :
        IF entry_id \notin IdsOf(fixed)
        THEN Request("fixed.update_entry", 404, DB, {}, {})
        ELSE LET existing == RowOf(fixed, entry_id)
                 updated == update_fixed_expense_entry(DB, entry_id, entry_update, existing)
                 year_to_check == Given(entry_update, "year", existing.year)
                 month_to_check == Given(entry_update, "month", existing.month)
                 month_str == MonthStr(year_to_check, month_to_check)
             IN Request("fixed.update_entry", 200,
                        IF is_previous_month(month_str)
                        THEN update_balance_entry_for_month(updated, month_str)
                        ELSE updated,
                        {MonthStr(existing.year, existing.month)}, {month_str})

FixedRouter_bulk_delete_entries ==
    \E entry_ids \in IdLists(fixed, seqFixed) :
        LET existing_entries == {r \in fixed : r.id \in Range(entry_ids)}
            deleted == bulk_delete_fixed_expense_entries(DB, entry_ids)
            months_to_update == PreviousOf(MonthsOfFixed(existing_entries))
        IN IF entry_ids = <<>>
           THEN Request("fixed.bulk_delete_entries", 400, DB, {}, {})
           ELSE IF existing_entries = {}
           THEN Request("fixed.bulk_delete_entries", 404, DB, {}, {})
           ELSE Request("fixed.bulk_delete_entries", 200,
                        UpdateBalanceForMonths(deleted, months_to_update),
                        MonthsOfFixed(existing_entries), {})

FixedRouter_bulk_update_entries ==
    \E entry_ids \in IdLists(fixed, seqFixed), entry_update \in FixedUpdates :
        LET targeted == {r \in fixed : r.id \in Range(entry_ids)}
            updated == bulk_update_fixed_expense_entries(DB, entry_ids, entry_update)
            existing_after == {r \in updated.fixed : r.id \in Range(entry_ids)}
            months_to_update ==
                PreviousOf({MonthStr(Given(entry_update, "year", r.year),
                                     Given(entry_update, "month", r.month)) :
                                r \in existing_after})
        IN IF entry_ids = <<>>
           THEN Request("fixed.bulk_update_entries", 400, DB, {}, {})
           ELSE IF targeted = {}
           THEN Request("fixed.bulk_update_entries", 500, DB, {}, {})
           ELSE Request("fixed.bulk_update_entries", 200,
                        UpdateBalanceForMonths(updated, months_to_update),
                        MonthsOfFixed(targeted), MonthsOfFixed(existing_after))

FixedRouter_merge_entries ==
    \E entry_ids \in IdLists(fixed, seqFixed) :
        LET existing_entries == {r \in fixed : r.id \in Range(entry_ids)}
            merged == merge_fixed_expense_entries(DB, entry_ids)
            merged_entry == RowOf(merged.fixed, merged.seqFixed)
            merged_month_str == MonthStr(merged_entry.year, merged_entry.month)
            months_to_update ==
                PreviousOf(MonthsOfFixed(existing_entries) \cup {merged_month_str})
        IN IF Len(entry_ids) < 2
           THEN Request("fixed.merge_entries", 400, DB, {}, {})
           ELSE IF existing_entries = {}
           THEN Request("fixed.merge_entries", 500, DB, {}, {})
           ELSE IF merged.err
           THEN Request("fixed.merge_entries", 400, DB, {}, {})
           ELSE Request("fixed.merge_entries", 200,
                        UpdateBalanceForMonths(merged, months_to_update),
                        MonthsOfFixed(existing_entries), {merged_month_str})

FixedRouter_delete_entry ==
    \E entry_id \in 1..(seqFixed + 1) :
        IF entry_id \notin IdsOf(fixed)
        THEN Request("fixed.delete_entry", 404, DB, {}, {})
        ELSE LET existing == RowOf(fixed, entry_id)
                 deleted == delete_fixed_expense_entry(DB, entry_id)
                 month_str == MonthStr(existing.year, existing.month)
             IN Request("fixed.delete_entry", 200,
                        IF is_previous_month(month_str)
                        THEN update_balance_entry_for_month(deleted, month_str)
                        ELSE deleted,
                        {month_str}, {})

\* ---- routers/actual_expense_entries_router.py --------------------------
Categories == {"essential"}

ActualRouter_create_entry ==
    \E amount \in Amounts, date \in Dates, item \in Items, category \in Categories :
        LET entry == [amount |-> amount, date |-> date, item |-> item,
                      category |-> category, currency |-> "EUR"]
            created == create_actual_expense_entry(DB, entry)
        IN IF created.err
           THEN Request("actual.create_entry", 400, DB, {}, {})
           ELSE Request("actual.create_entry", 201, created, {}, {})

ActualRouter_delete_entry ==
    \E entry_id \in 1..(seqActual + 1) :
        IF entry_id \notin IdsOf(actual)
        THEN Request("actual.delete_entry", 404, DB, {}, {})
        ELSE Request("actual.delete_entry", 200,
                     delete_actual_expense_entry(DB, entry_id), {}, {})

\* ---- routers/available_cash_router.py ----------------------------------
MonthInputs == Months \cup {<<2026, 13>>}

get_available_cash_by_month ==
    \E month \in MonthInputs :
        LET result == calculate_available_cash(DB, month) IN
        /\ mergePc = "idle"
        /\ lastOp' = [name |-> "get_available_cash_by_month",
                      status |-> IF result.err THEN 400 ELSE 200,
                      month |-> month, available_cash |-> result.available_cash]
        /\ UNCHANGED <<ops, ledgerVars, migVars, prioVars, savingsVars, debtVars>>

\* ---- the balance service called on its own -----------------------------
UpdateBalanceEntryForMonth ==
    \E month \in Months :
        /\ ops < MaxBalanceOps /\ mergePc = "idle"
        /\ Commit(update_balance_entry_for_month(DB, month))
        /\ lastOp' = [name |-> "update_balance_entry_for_month", month |-> month]
        /\ ops' = ops + 1
        /\ UNCHANGED <<now, mergePc, mergeIds, mergedId, migVars, prioVars, savingsVars, debtVars>>

\* ---- merge_income_entries, commit by commit ----------------------------
\* validate_and_fetch_entries, calculate_common_merged_values and
\* create_income_entry, which commits the merged row
MergeCreate ==
    \E entry_ids \in IdLists(income, seqIncome) :
        LET fetched == validate_and_fetch_entries(income, entry_ids)
            created == create_income_entry(DB, MergedIncomeEntry(fetched.entries))
        IN /\ ops < MaxMerges /\ mergePc = "idle"
           /\ ops' = ops + 1
           /\ IF fetched.err \/ created.err
              THEN /\ lastOp' = [name |-> "merge_income_entries", step |-> "raised",
                                 entry_ids |-> entry_ids, merged_id |-> 0]
                   /\ UNCHANGED ledgerVars
              ELSE /\ Commit(created)
                   /\ mergePc' = "created"
                   /\ mergeIds' = entry_ids
                   /\ mergedId' = created.seqIncome
                   /\ lastOp' = [name |-> "merge_income_entries", step |-> "created",
                                 entry_ids |-> entry_ids, merged_id |-> created.seqIncome]
                   /\ UNCHANGED now
           /\ UNCHANGED <<migVars, prioVars, savingsVars, debtVars>>

\* bulk_delete_income_entries, which commits the deletion; the merge returns
MergeDelete ==
    /\ mergePc = "created"
    /\ Commit(bulk_delete_income_entries(DB, mergeIds))
    /\ mergePc' = "idle"
    /\ lastOp' = [name |-> "merge_income_entries", step |-> "returned",
                  entry_ids |-> mergeIds, merged_id |-> mergedId]
    /\ UNCHANGED <<ops, now, mergeIds, mergedId, migVars, prioVars, savingsVars, debtVars>>

\* the deletion raises (the database is locked, the disk is full) or the
\* process dies before it: nothing undoes the committed insertion
MergeFail ==
    /\ mergePc = "created"
    /\ mergePc' = "idle"
    /\ lastOp' = [name |-> "merge_income_entries", step |-> "failed",
                  entry_ids |-> mergeIds, merged_id |-> mergedId]
    /\ UNCHANGED <<ops, income, fixed, actual, seqIncome, seqFixed, seqActual, now,
                   recomputed, mergeIds, mergedId, migVars, prioVars, savingsVars, debtVars>>

\* ---- stores the application can have reached ---------------------------
SeedIncomeIds == {1, 2}

SeedExpenseIds == {1}

SeedIncome(ids) ==
    UNION {{{[id |-> i, amount |-> f[i][1], date |-> f[i][2], item |-> "a",
              currency |-> "EUR"] : i \in I} : f \in [I -> Amounts \X Dates]} :
           I \in SUBSET ids}

SeedFixed(ids) ==
    UNION {{{[id |-> i, amount |-> f[i][1], item |-> "a", currency |-> "EUR",
              month |-> f[i][2][2], year |-> f[i][2][1]] : i \in I} :
            f \in [I -> Amounts \X Months]} :
           I \in SUBSET ids}

SeedActual(ids) ==
    UNION {{{[id |-> i, amount |-> f[i][1], date |-> f[i][2], item |-> "a",
              category |-> "essential", currency |-> "EUR"] : i \in I} :
            f \in [I -> Amounts \X Dates]} :
           I \in SUBSET ids}

restInit ==
    /\ store = ColdStore /\ pc = Idle /\ runs = 0
    /\ lastEnd = ColdStore /\ prevEnd = ColdStore
    /\ clean = FALSE /\ immediate = FALSE
    /\ now = <<2026, 1>>
    /\ recomputed = {}
    /\ mergePc = "idle" /\ mergeIds = <<>> /\ mergedId = 0
    /\ prioInit
    /\ savingsInit /\ foreign_keys = FALSE
    /\ debtInit
    /\ lastOp = [name |-> "init"] /\ ops = 0

\* ---- the ledger behind its routers -------------------------------------
InitLedger ==
    /\ income = {} /\ fixed = {} /\ actual = {}
    /\ seqIncome = 0 /\ seqFixed = 0 /\ seqActual = 0
    /\ restInit

NextLedger ==
    \/ IncomeRouter_create_entry
    \/ IncomeRouter_update_entry
    \/ IncomeRouter_bulk_delete_entries
    \/ IncomeRouter_bulk_update_entries
    \/ IncomeRouter_merge_entries
    \/ IncomeRouter_delete_entry
    \/ FixedRouter_create_entry
    \/ FixedRouter_update_entry
    \/ FixedRouter_bulk_delete_entries
    \/ FixedRouter_bulk_update_entries
    \/ FixedRouter_merge_entries
    \/ FixedRouter_delete_entry
    \/ ActualRouter_create_entry
    \/ ActualRouter_delete_entry

SpecLedger == InitLedger /\ [][NextLedger]_vars

\* ---- available cash over every small store -----------------------------
InitSeeded ==
    /\ income \in SeedIncome(SeedIncomeIds)
    /\ fixed \in SeedFixed(SeedExpenseIds)
    /\ actual \in SeedActual(SeedExpenseIds)
    /\ seqIncome = Max(SeedIncomeIds)
    /\ seqFixed = Max(SeedExpenseIds)
    /\ seqActual = Max(SeedExpenseIds)
    /\ restInit

NextCash == get_available_cash_by_month

SpecCash == InitSeeded /\ [][NextCash]_vars

\* ---- the balance entry over every small store --------------------------
NextBalance == UpdateBalanceEntryForMonth

SpecBalance == InitSeeded /\ [][NextBalance]_vars

\* ---- merges of income entries over every small income table ------------
MergeSeedIds == {1, 2, 3}

InitMerge ==
    /\ income \in SeedIncome(MergeSeedIds)
    /\ fixed = {} /\ actual = {}
    /\ seqIncome = Max(MergeSeedIds) /\ seqFixed = 0 /\ seqActual = 0
    /\ restInit

NextMerge ==
    \/ MergeCreate
    \/ MergeDelete
    \/ MergeFail

SpecMerge == InitMerge /\ [][NextMerge]_vars

(***************************************************************************)
(*                     PROPERTIES OF THE LEDGER                            *)
(***************************************************************************)

\* the available cash of a month as the specification defines it, over the
\* stored tables
IncomeOf(m) == {r \in income : r.date[1] = m[1] /\ r.date[2] = m[2]}

FixedOf(m) == {r \in fixed : r.year = m[1] /\ r.month = m[2]}

ActualOf(m) == {r \in actual : r.date[1] = m[1] /\ r.date[2] = m[2]}

CashOf(m) == (SumAmounts(IncomeOf(m)) - SumAmounts(FixedOf(m))) - SumAmounts(ActualOf(m))

BalanceCall == "update_balance_entry_for_month"

\* C2: a second update_balance_entry_for_month(m) right after a first one,
\* nothing written in between, creates no second balance entry and leaves
\* the stored one (amount, date, label, table) as the first call left it.
C2_IdempotentUpsert ==
    [][(/\ lastOp.name = BalanceCall
        /\ lastOp'.name = BalanceCall
        /\ lastOp'.month = lastOp.month)
          => (income' = income /\ actual' = actual)]_vars

\* C3: for a valid month m, calculate_available_cash(m) is the sum of the
\* income dated in m minus the fixed expenses of month/year m minus the
\* actual expenses dated in m; entries of other months do not contribute.
C3_AvailableCash ==
    (lastOp.name = "get_available_cash_by_month" /\ lastOp.status = 200)
        => lastOp.available_cash = CashOf(lastOp.month)

\* the cash of a month was returned while all three tables held entries of
\* that month and the income table also held an entry of another month
C3_Witness ==
    /\ lastOp.name = "get_available_cash_by_month" /\ lastOp.status = 200
    /\ IncomeOf(lastOp.month) # {} /\ FixedOf(lastOp.month) # {}
    /\ ActualOf(lastOp.month) # {}
    /\ income \ IncomeOf(lastOp.month) # {}
    /\ lastOp.available_cash # 0

\* C4: for a month m without a balance entry and with available cash c,
\* update_balance_entry_for_month(m) creates, when c > 0, exactly one income
\* entry with the label of m and amount c and no actual expense entry, and,
\* when c < 0, exactly one actual expense entry with that label, category
\* 'unforeseen' and amount |c| and no income entry.
C4_BalanceEntryCreated ==
    [][lastOp'.name = BalanceCall =>
        LET m == lastOp'.month
            label == format_month_name_for_balance(m)
            c == CashOf(m)
        IN ((\A r \in income : r.item # label) /\ (\A r \in actual : r.item # label))
            => /\ c > 0 =>
                    /\ actual' = actual
                    /\ \E r \in income' \ income :
                          /\ income' = income \cup {r}
                          /\ r.item = label /\ r.amount = c
               /\ c < 0 =>
                    /\ income' = income
                    /\ \E r \in actual' \ actual :
                          /\ actual' = actual \cup {r}
                          /\ r.item = label /\ r.amount = 0 - c
                          /\ r.category = "unforeseen"]_vars

\* two months got their first balance entry, one a surplus and one a deficit
C4_Witness ==
    /\ lastOp.name = BalanceCall
    /\ \E m1 \in Months : \E m2 \in Months \ {m1} :
          /\ \E r \in income : r.item = format_month_name_for_balance(m1)
          /\ \A r \in actual : r.item # format_month_name_for_balance(m1)
          /\ \E r \in actual : /\ r.item = format_month_name_for_balance(m2)
                               /\ r.category = "unforeseen"
          /\ \A r \in income : r.item # format_month_name_for_balance(m2)

LedgerMutations ==
    {"income.create_entry", "income.update_entry", "income.bulk_update_entries",
     "income.delete_entry", "income.bulk_delete_entries", "income.merge_entries",
     "fixed.create_entry", "fixed.update_entry", "fixed.bulk_update_entries",
     "fixed.delete_entry", "fixed.bulk_delete_entries", "fixed.merge_entries"}

\* C5: a completed create, update, bulk update, delete, bulk delete or merge
\* of income or fixed expense entries that touches the previous calendar
\* month (an affected entry belongs to it before or after the mutation) has
\* recomputed that month's balance entry by the time the request returns.
C5_RecomputeAfterMutation ==
    [][(/\ lastOp'.name \in LedgerMutations
        /\ lastOp'.status \in {200, 201}
        /\ get_previous_month \in lastOp'.before \cup lastOp'.after)
          => get_previous_month \in recomputed']_vars

MergeCall == "merge_income_entries"

\* C9: merge_income_entries on a list of two or more ids of stored income
\* entries returns and leaves exactly one new entry, its amount the sum of the
\* listed entries' amounts and its date the greatest of their dates; none of
\* the listed rows is left and the other rows are unchanged.
C9_MergeIncome ==
    [][(lastOp'.name = MergeCall /\ lastOp'.step \in {"raised", "returned"}) =>
        LET ids == lastOp'.entry_ids
            before == {r \in income : r.id # lastOp'.merged_id}
            listed == [i \in 1..Len(ids) |-> RowOf(before, ids[i])]
            others == {r \in before : r.id \notin Range(ids)}
        IN (Len(ids) >= 2 /\ \A i \in 1..Len(ids) : ids[i] \in IdsOf(before))
              => /\ lastOp'.step = "returned"
                 /\ \E r \in income' \ before :
                       /\ income' = others \cup {r}
                       /\ r.amount = SumSeq([i \in 1..Len(ids) |-> listed[i].amount])
                       /\ \E i \in 1..Len(ids) : r.date = listed[i].date
                       /\ \A i \in 1..Len(ids) : DateLeq(listed[i].date, r.date)]_vars

\* C10: no store state holds the row a merge created together with one of
\* the rows it merged.
C10_MergeAtomic ==
    (lastOp.name = MergeCall /\ lastOp.step \in {"created", "failed", "returned"})
        => ~(/\ lastOp.merged_id \in IdsOf(income)
             /\ \E i \in 1..Len(lastOp.entry_ids) : lastOp.entry_ids[i] \in IdsOf(income))

(***************************************************************************)
(*              PART 3: PRIORITIES OF WISHLIST ITEMS AND PROJECTS          *)
(***************************************************************************)

\* A wishlist item is [id, wishlist_id, priority, amount], a project is
\* [id, priority_order]: the columns the rankings read and write.  err: the
\* call raised and wrote nothing.
\* time is what datetime.now() gives the call: every call comes later than
\* the calls before it
PR ==
    [wishlist_items |-> wishlist_items, projects |-> projects,
     seqItems |-> seqItems, seqProjects |-> seqProjects, err |-> FALSE,
     time |-> ops + 1]

\* purchased_at of an item that is not purchased (NULL); the times are 1, 2, ...
NoPurchase == 0

Priorities == 1..3

ItemAmounts == {0, 10}

Directions == {"up", "down"}

WishlistIds == wishlists \cup {3}

\* ---- services/wishlist_items_services.py -------------------------------
create_wishlist_item(p, entry) ==
    IF entry.wishlist_id \notin wishlists THEN [p EXCEPT !.err = TRUE]
    ELSE LET shifted == {IF r.wishlist_id = entry.wishlist_id /\ r.priority >= entry.priority
                         THEN [r EXCEPT !.priority = @ + 1]
                         ELSE r : r \in p.wishlist_items}
         IN [p EXCEPT !.wishlist_items =
                          shifted \cup {[id |-> p.seqItems + 1,
                                         wishlist_id |-> entry.wishlist_id,
                                         priority |-> entry.priority,
                                         amount |-> entry.amount,
                                         purchased |-> FALSE,
                                         purchased_at |-> NoPurchase]},
                      !.seqItems = @ + 1]

\* one UPDATE for every listed id, whatever the item was before
bulk_purchase_items(p, item_ids, purchased) ==
    IF item_ids = <<>> THEN p
    ELSE LET updated_at == p.time
             purchased_at == IF purchased THEN updated_at ELSE NoPurchase
         IN [p EXCEPT !.wishlist_items =
                {IF r.id \in Range(item_ids)
                 THEN [r EXCEPT !.purchased = purchased, !.purchased_at = purchased_at]
                 ELSE r : r \in @}]

bulk_delete_items(p, item_ids) ==
    IF item_ids = <<>> THEN p
    ELSE [p EXCEPT !.wishlist_items = {r \in @ : r.id \notin Range(item_ids)}]

delete_wishlist_item(p, item_id) ==
    [p EXCEPT !.wishlist_items = {r \in @ : r.id # item_id}]

\* the UNIQUE constraint on projects.priority_order is checked by hand
\* before the INSERT
create_project(p, entry) ==
    IF \E r \in p.projects : r.priority_order = entry.priority_order
    THEN [p EXCEPT !.err = TRUE]
    ELSE [p EXCEPT !.projects = @ \cup {[id |-> p.seqProjects + 1,
                                         priority_order |-> entry.priority_order]},
                   !.seqProjects = @ + 1]

export_item_to_project(p, item_id) ==
    IF item_id \notin IdsOf(p.wishlist_items) THEN [p EXCEPT !.err = TRUE]
    ELSE LET item == RowOf(p.wishlist_items, item_id)
             max_priority == IF p.projects = {} THEN 0
                             ELSE Max({r.priority_order : r \in p.projects})
             created == create_project(p, [priority_order |-> max_priority + 1])
         IN IF item.amount <= 0 THEN [p EXCEPT !.err = TRUE]
            ELSE IF created.err THEN created
            ELSE delete_wishlist_item(created, item_id)

\* the items keep the priority they had in the wishlist they leave
move_items_to_wishlist(p, item_ids, target_wishlist_id) ==
    IF item_ids = <<>> THEN p
    ELSE IF target_wishlist_id \notin wishlists THEN [p EXCEPT !.err = TRUE]
    ELSE [p EXCEPT !.wishlist_items =
             {IF r.id \in Range(item_ids)
              THEN [r EXCEPT !.wishlist_id = target_wishlist_id]
              ELSE r : r \in @}]

\* variant: the rows of every wishlist in the range are taken
ItemsToShift_in_every_wishlist(p, item_id, new_priority, existing) ==
    {r \in p.wishlist_items :
        /\ r.id # item_id
        /\ IF new_priority < existing.priority
           THEN r.priority >= new_priority /\ r.priority < existing.priority
           ELSE r.priority > existing.priority /\ r.priority <= new_priority}

\* the rows between the old and the new priority that make room
ItemsToShift(p, item_id, new_priority, existing) ==
    {r \in p.wishlist_items :
        /\ r.wishlist_id = existing.wishlist_id /\ r.id # item_id
        /\ IF new_priority < existing.priority
           THEN r.priority >= new_priority /\ r.priority < existing.priority
           ELSE r.priority > existing.priority /\ r.priority <= new_priority}

\* variant: the item takes its new priority and nothing makes room for it
update_wishlist_item_in_place(p, item_id, entry_update, existing) ==
    [p EXCEPT !.wishlist_items =
        {IF r.id = item_id
         THEN [r EXCEPT !.priority = Given(entry_update, "priority", existing.priority)]
         ELSE r : r \in @}]

update_wishlist_item(p, item_id, entry_update, existing) ==
    LET new_priority == Given(entry_update, "priority", existing.priority)
        items_to_shift == ItemsToShift(p, item_id, new_priority, existing)
        delta == IF new_priority < existing.priority THEN 1 ELSE 0 - 1
        purchased == Given(entry_update, "purchased", existing.purchased)
        purchased_at ==
            IF "purchased" \notin DOMAIN entry_update THEN existing.purchased_at
            ELSE IF entry_update.purchased /\ ~existing.purchased THEN p.time
            ELSE IF ~entry_update.purchased /\ existing.purchased THEN NoPurchase
            ELSE existing.purchased_at
    IN [p EXCEPT !.wishlist_items =
          {IF r.id = item_id
           THEN [r EXCEPT !.priority = new_priority, !.purchased = purchased,
                          !.purchased_at = purchased_at]
           ELSE IF r \in items_to_shift THEN [r EXCEPT !.priority = @ + delta]
           ELSE r : r \in @}]

\* variant: the third UPDATE is missing and the item stays on 1000000 + id
swap_wishlist_item_priority_parked(p, item_id, direction) ==
    IF direction \notin {"up", "down"} \/ item_id \notin IdsOf(p.wishlist_items)
    THEN [p EXCEPT !.err = TRUE]
    ELSE LET current_item == RowOf(p.wishlist_items, item_id)
             current_priority == current_item.priority
             target_priority == IF direction = "up" THEN current_priority - 1
                                ELSE current_priority + 1
             adjacent == {r \in p.wishlist_items :
                             /\ r.wishlist_id = current_item.wishlist_id
                             /\ r.priority = target_priority}
             adjacent_item_id == Min(IdsOf(adjacent))
         IN IF target_priority < 1 \/ adjacent = {} THEN [p EXCEPT !.err = TRUE]
            ELSE [p EXCEPT !.wishlist_items =
                    {IF r.id = item_id THEN [r EXCEPT !.priority = 1000000 + item_id]
                     ELSE IF r.id = adjacent_item_id
                     THEN [r EXCEPT !.priority = current_priority]
                     ELSE r : r \in @}]

swap_wishlist_item_priority(p, item_id, direction) ==
    IF direction \notin {"up", "down"} \/ item_id \notin IdsOf(p.wishlist_items)
    THEN [p EXCEPT !.err = TRUE]
    ELSE LET current_item == RowOf(p.wishlist_items, item_id)
             current_priority == current_item.priority
             target_priority == IF direction = "up" THEN current_priority - 1
                                ELSE current_priority + 1
             adjacent == {r \in p.wishlist_items :
                             /\ r.wishlist_id = current_item.wishlist_id
                             /\ r.priority = target_priority}
             adjacent_item_id == Min(IdsOf(adjacent))
         IN IF target_priority < 1 \/ adjacent = {} THEN [p EXCEPT !.err = TRUE]
            ELSE [p EXCEPT !.wishlist_items =
                    {IF r.id = item_id THEN [r EXCEPT !.priority = target_priority]
                     ELSE IF r.id = adjacent_item_id
                     THEN [r EXCEPT !.priority = current_priority]
                     ELSE r : r \in @}]

\* ---- services/projects_services.py -------------------------------------
delete_project(p, project_id) ==
    [p EXCEPT !.projects = {r \in @ : r.id # project_id}]

update_project(p, project_id, entry_update, existing) ==
    LET priority_order == Given(entry_update, "priority_order", existing.priority_order)
    IN IF /\ priority_order # existing.priority_order
          /\ \E r \in p.projects : r.priority_order = priority_order /\ r.id # project_id
       THEN [p EXCEPT !.err = TRUE]
       ELSE [p EXCEPT !.projects =
                {IF r.id = project_id THEN [r EXCEPT !.priority_order = priority_order]
                 ELSE r : r \in @}]

\* the three UPDATEs run under the UNIQUE constraint: the project parks on
\* 1000000 + id first, and a clash there rolls the swap back
swap_project_priorities(p, project_id, direction) ==
    IF direction \notin {"up", "down"} \/ project_id \notin IdsOf(p.projects)
    THEN [p EXCEPT !.err = TRUE]
    ELSE LET current_priority == RowOf(p.projects, project_id).priority_order
             target_priority == IF direction = "up" THEN current_priority - 1
                                ELSE current_priority + 1
             adjacent == {r \in p.projects : r.priority_order = target_priority}
             temp_priority == 1000000 + project_id
         IN IF \/ target_priority < 1
               \/ adjacent = {}
               \/ \E r \in p.projects : r.priority_order = temp_priority
            THEN [p EXCEPT !.err = TRUE]
            ELSE [p EXCEPT !.projects =
                    {IF r.id = project_id THEN [r EXCEPT !.priority_order = target_priority]
                     ELSE IF r \in adjacent THEN [r EXCEPT !.priority_order = current_priority]
                     ELSE r : r \in @}]

\* ---- the calls ---------------------------------------------------------
ItemIdInputs == IdsOf(wishlist_items) \cup {seqItems + 1}

ProjectIdInputs == IdsOf(projects) \cup {seqProjects + 1}

ItemIdLists == UNION {[1..k -> ItemIdInputs] : k \in 0..2}

\* what a call leaves: nothing when it raised
PrioCall(name, p, shifted) ==
    /\ ops < MaxPrioOps
    /\ wishlist_items' = IF p.err THEN wishlist_items ELSE p.wishlist_items
    /\ projects' = IF p.err THEN projects ELSE p.projects
    /\ seqItems' = IF p.err THEN seqItems ELSE p.seqItems
    /\ seqProjects' = IF p.err THEN seqProjects ELSE p.seqProjects
    /\ lastOp' = [name |-> name, ok |-> ~p.err, shifted |-> shifted]
    /\ ops' = ops + 1
    /\ UNCHANGED <<wishlists, migVars, ledgerVars, savingsVars, debtVars>>

CreateWishlistItem ==
    \E wishlist_id \in WishlistIds, priority \in Priorities, amount \in ItemAmounts :
        PrioCall("create_wishlist_item",
                 create_wishlist_item(PR, [wishlist_id |-> wishlist_id,
                                           priority |-> priority, amount |-> amount]),
                 Cardinality({r \in wishlist_items :
                                 r.wishlist_id = wishlist_id /\ r.priority >= priority}))

BulkDeleteItems ==
    \E item_ids \in ItemIdLists :
        PrioCall("bulk_delete_items", bulk_delete_items(PR, item_ids), 0)

\* the router answers 404 for an id that is not stored
DeleteWishlistItem ==
    \E item_id \in ItemIdInputs :
        PrioCall("delete_wishlist_item",
                 IF item_id \in IdsOf(wishlist_items)
                 THEN delete_wishlist_item(PR, item_id)
                 ELSE [PR EXCEPT !.err = TRUE], 0)

ExportItemToProject ==
    \E item_id \in ItemIdInputs :
        PrioCall("export_item_to_project", export_item_to_project(PR, item_id), 0)

MoveItemsToWishlist ==
    \E item_ids \in ItemIdLists, target_wishlist_id \in WishlistIds :
        PrioCall("move_items_to_wishlist",
                 move_items_to_wishlist(PR, item_ids, target_wishlist_id), 0)

\* the router fetches the existing item and answers 404 without it
UpdateWishlistItem ==
    \E item_id \in ItemIdInputs, priority \in Priorities :
        IF item_id \notin IdsOf(wishlist_items)
        THEN PrioCall("update_wishlist_item", [PR EXCEPT !.err = TRUE], 0)
        ELSE LET existing == RowOf(wishlist_items, item_id) IN
             PrioCall("update_wishlist_item",
                      update_wishlist_item(PR, item_id, [priority |-> priority], existing),
                      Cardinality(ItemsToShift(PR, item_id, priority, existing)))

SwapWishlistItemPriority ==
    \E item_id \in ItemIdInputs, direction \in Directions :
        PrioCall("swap_wishlist_item_priority",
                 swap_wishlist_item_priority(PR, item_id, direction), 1)

CreateProject ==
    \E priority_order \in Priorities :
        PrioCall("create_project",
                 create_project(PR, [priority_order |-> priority_order]), 0)

DeleteProject ==
    \E project_id \in ProjectIdInputs :
        PrioCall("delete_project",
                 IF project_id \in IdsOf(projects)
                 THEN delete_project(PR, project_id)
                 ELSE [PR EXCEPT !.err = TRUE], 0)

UpdateProject ==
    \E project_id \in ProjectIdInputs, priority_order \in Priorities :
        IF project_id \notin IdsOf(projects)
        THEN PrioCall("update_project", [PR EXCEPT !.err = TRUE], 0)
        ELSE PrioCall("update_project",
                      update_project(PR, project_id, [priority_order |-> priority_order],
                                     RowOf(projects, project_id)), 0)

SwapProjectPriorities ==
    \E project_id \in ProjectIdInputs, direction \in Directions :
        PrioCall("swap_project_priorities",
                 swap_project_priorities(PR, project_id, direction), 1)

InitPrio ==
    /\ store = ColdStore /\ pc = Idle /\ runs = 0
    /\ lastEnd = ColdStore /\ prevEnd = ColdStore
    /\ clean = FALSE /\ immediate = FALSE
    /\ ledgerInit /\ now = <<2026, 1>>
    /\ prioInit
    /\ savingsInit /\ foreign_keys = FALSE
    /\ debtInit
    /\ lastOp = [name |-> "init"] /\ ops = 0

NextPrio ==
    \/ CreateWishlistItem
    \/ BulkDeleteItems
    \/ DeleteWishlistItem
    \/ ExportItemToProject
    \/ MoveItemsToWishlist
    \/ UpdateWishlistItem
    \/ SwapWishlistItemPriority
    \/ CreateProject
    \/ DeleteProject
    \/ UpdateProject
    \/ SwapProjectPriorities

SpecPrio == InitPrio /\ [][NextPrio]_vars

\* ---- properties of the rankings ----------------------------------------
UniquePriorities ==
    /\ \A a \in wishlist_items : \A b \in wishlist_items :
          (a.id # b.id /\ a.wishlist_id = b.wishlist_id) => a.priority # b.priority
    /\ \A a \in projects : \A b \in projects :
          a.id # b.id => a.priority_order # b.priority_order

ReassignCalls ==
    {"create_wishlist_item", "update_wishlist_item", "swap_wishlist_item_priority",
     "update_project", "swap_project_priorities"}

\* C6: from priorities that are unique within every wishlist and among the
\* projects, a completed priority reassignment (create_wishlist_item,
\* update_wishlist_item, swap_wishlist_item_priority, update_project,
\* swap_project_priorities) leaves them unique.
C6_UniqueAfterReassignment ==
    [][(lastOp'.name \in ReassignCalls /\ lastOp'.ok /\ UniquePriorities)
          => UniquePriorities']_vars

\* an item was moved to an occupied priority of its wishlist and the items in
\* between made room
C6_Witness ==
    /\ lastOp.name = "update_wishlist_item" /\ lastOp.ok /\ lastOp.shifted >= 1
    /\ UniquePriorities

\* C7: the priorities of the items of a wishlist are exactly 1..n for its n
\* items, and so are those of the n projects.
C7_DenseRanking ==
    /\ \A w \in wishlists :
          LET items == {r \in wishlist_items : r.wishlist_id = w}
          IN {r.priority : r \in items} = 1..Cardinality(items)
    /\ {r.priority_order : r \in projects} = 1..Cardinality(projects)

\* ========================================================================
\* PART 4.  Savings accounts and their contributions
\* ========================================================================
Balances == {0 - 1, 5}

ContributionAmounts == {0 - 1, 1}

SV ==
    [savings_accounts |-> savings_accounts, contributions |-> contributions,
     seqAccounts |-> seqAccounts, seqContributions |-> seqContributions,
     err |-> FALSE]

\* sqlite3.connect(DB_PATH) sets no PRAGMA: foreign keys are enforced only by
\* a library built with SQLITE_DEFAULT_FOREIGN_KEYS=1
get_connection == BOOLEAN

\* the row fetched, as a set: empty where the code gets None
get_savings_account_by_id(s, account_id) ==
    {r \in s.savings_accounts : r.id = account_id}

get_contribution_by_id(s, contribution_id) ==
    {c \in s.contributions : c.id = contribution_id}

create_savings_account(s, entry) ==
    IF entry.base_balance < 0 THEN [s EXCEPT !.err = TRUE]
    ELSE [s EXCEPT !.savings_accounts =
                       @ \cup {[id |-> s.seqAccounts + 1,
                                base_balance |-> entry.base_balance]},
                   !.seqAccounts = @ + 1]

\* DELETE FROM savings_accounts WHERE id = ?; the contributions of the account
\* go with it (ON DELETE CASCADE of migration 007) on a connection that
\* enforces foreign keys, and stay on one that does not
delete_savings_account(s, account_id, fk) ==
    [s EXCEPT !.savings_accounts = {r \in @ : r.id # account_id},
              !.contributions =
                  IF fk /\ account_id \in IdsOf(s.savings_accounts)
                  THEN {c \in @ : c.savings_account_id # account_id} ELSE @,
              !.err = account_id \notin IdsOf(s.savings_accounts)]

create_contribution(s, entry) ==
    IF entry.amount < 0 THEN [s EXCEPT !.err = TRUE]
    ELSE IF get_savings_account_by_id(s, entry.savings_account_id) = {}
    THEN [s EXCEPT !.err = TRUE]
    ELSE [s EXCEPT !.contributions =
                       @ \cup {[id |-> s.seqContributions + 1,
                                savings_account_id |-> entry.savings_account_id,
                                amount |-> entry.amount]},
                   !.seqContributions = @ + 1]

delete_contribution(s, contribution_id) ==
    [s EXCEPT !.contributions = {c \in @ : c.id # contribution_id},
              !.err = contribution_id \notin IdsOf(s.contributions)]

update_contribution(s, contribution_id, entry_update, existing) ==
    LET savings_account_id ==
            Given(entry_update, "savings_account_id", existing.savings_account_id)
        amount == Given(entry_update, "amount", existing.amount)
    IN IF amount < 0 THEN [s EXCEPT !.err = TRUE]
       ELSE IF /\ savings_account_id # existing.savings_account_id
               /\ get_savings_account_by_id(s, savings_account_id) = {}
       THEN [s EXCEPT !.err = TRUE]
       ELSE [s EXCEPT !.contributions =
                          {IF c.id = contribution_id
                           THEN [c EXCEPT !.savings_account_id = savings_account_id,
                                          !.amount = amount]
                           ELSE c : c \in @}]

\* ---- the calls ---------------------------------------------------------
AccountIdInputs == IdsOf(savings_accounts) \cup {seqAccounts + 1}

ContributionIdInputs == IdsOf(contributions) \cup {seqContributions + 1}

ContributionUpdates ==
    {[amount |-> a] : a \in ContributionAmounts}
        \cup {[savings_account_id |-> i] : i \in AccountIdInputs}

SavingsCall(name, s, id) ==
    /\ ops < MaxSavingsOps
    /\ savings_accounts' = IF s.err THEN savings_accounts ELSE s.savings_accounts
    /\ contributions' = IF s.err THEN contributions ELSE s.contributions
    /\ seqAccounts' = IF s.err THEN seqAccounts ELSE s.seqAccounts
    /\ seqContributions' = IF s.err THEN seqContributions ELSE s.seqContributions
    /\ lastOp' = [name |-> name, ok |-> ~s.err, id |-> id]
    /\ ops' = ops + 1
    /\ UNCHANGED <<foreign_keys, migVars, ledgerVars, prioVars, debtVars>>

create_account ==
    \E base_balance \in Balances :
        SavingsCall("create_account",
                    create_savings_account(SV, [base_balance |-> base_balance]),
                    seqAccounts + 1)

delete_account ==
    \E account_id \in AccountIdInputs :
        SavingsCall("delete_account",
                    delete_savings_account(SV, account_id, foreign_keys), account_id)

create_contribution_entry ==
    \E savings_account_id \in AccountIdInputs, amount \in ContributionAmounts :
        SavingsCall("create_contribution_entry",
                    create_contribution(SV, [savings_account_id |-> savings_account_id,
                                             amount |-> amount]),
                    seqContributions + 1)

delete_contribution_entry ==
    \E contribution_id \in ContributionIdInputs :
        SavingsCall("delete_contribution_entry",
                    delete_contribution(SV, contribution_id), contribution_id)

update_contribution_entry ==
    \E contribution_id \in ContributionIdInputs, entry_update \in ContributionUpdates :
        LET existing == get_contribution_by_id(SV, contribution_id) IN
        SavingsCall("update_contribution_entry",
                    IF existing = {} THEN [SV EXCEPT !.err = TRUE]
                    ELSE update_contribution(SV, contribution_id, entry_update,
                                             CHOOSE c \in existing : TRUE),
                    contribution_id)

InitSavings ==
    /\ store = ColdStore /\ pc = Idle /\ runs = 0
    /\ lastEnd = ColdStore /\ prevEnd = ColdStore
    /\ clean = FALSE /\ immediate = FALSE
    /\ ledgerInit /\ now = <<2026, 1>>
    /\ prioInit
    /\ savingsInit /\ foreign_keys \in get_connection
    /\ debtInit
    /\ lastOp = [name |-> "init"] /\ ops = 0

NextSavings ==
    \/ create_account
    \/ delete_account
    \/ create_contribution_entry
    \/ delete_contribution_entry
    \/ update_contribution_entry

SpecSavings == InitSavings /\ [][NextSavings]_vars

\* ---- properties of the savings accounts ----------------------------------
\* C8: once delete_savings_account(a) has returned true no contribution
\* references account a, and in every state each contribution references a
\* stored savings account.
C8_NoOrphanContribution ==
    /\ (lastOp.name = "delete_account" /\ lastOp.ok)
          => \A c \in contributions : c.savings_account_id # lastOp.id
    /\ \A c \in contributions : c.savings_account_id \in IdsOf(savings_accounts)

\* ========================================================================
\* PART 5.  The three merge services, call by call
\* ========================================================================
ExpenseCategory ==
    {"essential", "comfort", "entertainment and leisure", "extras", "unforeseen"}

bulk_delete_actual_expense_entries(d, entry_ids) ==
    IF entry_ids = <<>> THEN d
    ELSE [d EXCEPT !.actual = {r \in @ : r.id \notin Range(entry_ids)}]

\* min(entry["date"] for entry in entries)
MinDate(entries) ==
    LET ds == {entries[i].date : i \in 1..Len(entries)}
    IN CHOOSE x \in ds : \A y \in ds : DateLeq(x, y)

\* the entry merge_actual_expense_entries creates out of the fetched rows
MergedActualExpenseEntry(entries) ==
    [amount |-> SumSeq([i \in 1..Len(entries) |-> entries[i].amount]),
     date |-> MinDate(entries),
     item |-> JoinItems(entries),
     category |-> IF entries[1].category \in ExpenseCategory
                  THEN entries[1].category ELSE "essential",
     currency |-> entries[1].currency]

\* the length test and the fetch loop are written out in this service
merge_actual_expense_entries(d, entry_ids) ==
    IF Len(entry_ids) < 2 THEN [d EXCEPT !.err = TRUE]
    ELSE IF \E i \in 1..Len(entry_ids) : entry_ids[i] \notin IdsOf(d.actual)
    THEN [d EXCEPT !.err = TRUE]
    ELSE LET entries == [i \in 1..Len(entry_ids) |-> RowOf(d.actual, entry_ids[i])]
             created == create_actual_expense_entry(d, MergedActualExpenseEntry(entries))
         IN IF created.err THEN created
            ELSE bulk_delete_actual_expense_entries(created, entry_ids)

\* a call of a merge service: what its statements committed stays, whether
\* it returned or raised
MergeServiceCall(table, entry_ids, d) ==
    /\ ops < MaxMergeCalls
    /\ Commit(d)
    /\ lastOp' = [name |-> "merge", table |-> table, entry_ids |-> entry_ids,
                  raised |-> d.err]
    /\ ops' = ops + 1
    /\ UNCHANGED <<now, mergePc, mergeIds, mergedId, migVars, prioVars, savingsVars, debtVars>>

MergeIncomeEntries ==
    \E entry_ids \in IdLists(income, seqIncome) :
        MergeServiceCall("income", entry_ids, merge_income_entries(DB, entry_ids))

MergeFixedExpenseEntries ==
    \E entry_ids \in IdLists(fixed, seqFixed) :
        MergeServiceCall("fixed", entry_ids, merge_fixed_expense_entries(DB, entry_ids))

MergeActualExpenseEntries ==
    \E entry_ids \in IdLists(actual, seqActual) :
        MergeServiceCall("actual", entry_ids, merge_actual_expense_entries(DB, entry_ids))

MergeCallSeedIds == {1, 2}

\* one of the three tables holds up to two rows
InitMergeCalls ==
    /\ \/ income \in SeedIncome(MergeCallSeedIds) /\ fixed = {} /\ actual = {}
       \/ income = {} /\ fixed \in SeedFixed(MergeCallSeedIds) /\ actual = {}
       \/ income = {} /\ fixed = {} /\ actual \in SeedActual(MergeCallSeedIds)
    /\ seqIncome = Max(MergeCallSeedIds)
    /\ seqFixed = Max(MergeCallSeedIds)
    /\ seqActual = Max(MergeCallSeedIds)
    /\ restInit

NextMergeCalls ==
    \/ MergeIncomeEntries
    \/ MergeFixedExpenseEntries
    \/ MergeActualExpenseEntries

SpecMergeCalls == InitMergeCalls /\ [][NextMergeCalls]_vars

TableOf(table) ==
    CASE table = "income" -> income [] table = "fixed" -> fixed [] OTHER -> actual

\* C11: a merge of income, fixed expense or actual expense entries called with
\* fewer than two ids, or with an id that is not stored, raises and leaves the
\* three tables and their sequences as they were.
C11_MergeRejected ==
    [][(lastOp'.name = "merge"
        /\ LET ids == lastOp'.entry_ids
           IN \/ Len(ids) < 2
              \/ \E i \in 1..Len(ids) : ids[i] \notin IdsOf(TableOf(lastOp'.table)))
          => /\ lastOp'.raised
             /\ UNCHANGED <<income, fixed, actual, seqIncome, seqFixed, seqActual>>]_vars

\* a merge of two ids, the first stored and the second not, raised
C11_Witness ==
    /\ lastOp.name = "merge" /\ lastOp.raised
    /\ Len(lastOp.entry_ids) = 2
    /\ lastOp.entry_ids[1] \in IdsOf(TableOf(lastOp.table))
    /\ lastOp.entry_ids[2] \notin IdsOf(TableOf(lastOp.table))

\* ========================================================================
\* PROPERTIES OF THE MIGRATIONS
\* ========================================================================
\* the columns of the tables that the sequence reshapes or drops, as their
\* latest CREATE TABLE statement (008 with the column of 009, 017, 019) has them
CurrentShape ==
    [projects |-> NewProjectsCols \cup {"priority_order"},
     wishlists |-> WishlistsCols,
     wishlist_items |-> WishlistItemsNewCols]

HasCurrentShape(s, t) ==
    t \in DOMAIN CurrentShape /\ HasTable(s, t) /\ s.tables[t].cols = CurrentShape[t]

\* C12: no step of the sequence removes a table that has its current shape:
\* a table is dropped only when its columns show the old shape.
C12_DropOnlyOldShape ==
    [][\A t \in DOMAIN store.tables :
          HasCurrentShape(store, t) => HasTable(store', t)]_vars

\* ---- runs on partially migrated stores ----------------------------------
\* up() of the k-th migration of the sequence
UpStep(k, s) ==
    CASE k = 1 -> Up001(s) [] k = 2 -> Up002(s) [] k = 3 -> Up003(s)
      [] k = 4 -> Up004(s) [] k = 5 -> Up005(s) [] k = 6 -> Up006(s)
      [] k = 7 -> Up007(s) [] k = 8 -> Up008(s) [] k = 9 -> Up009(s)
      [] k = 10 -> Up010(s) [] k = 11 -> Up011(s) [] k = 12 -> Up012(s)
      [] k = 13 -> Up013(s) [] k = 14 -> Up014(s) [] k = 15 -> Up016(s)
      [] k = 16 -> Up017(s) [] k = 17 -> Up018(s) [] k = 18 -> Up019(s)
      [] k = 19 -> Up020(s) [] OTHER -> Up021(s)

RECURSIVE ApplySteps(_)
\* the cold store after exactly the steps 1..k
ApplySteps(k) == IF k = 0 THEN ColdStore ELSE UpStep(k, ApplySteps(k - 1))

PartialStores == {ApplySteps(k) : k \in 0..NSteps}

ColdRunEnd == ApplySteps(NSteps)

InitRerun ==
    /\ store \in PartialStores
    /\ pc = Idle /\ runs = 0
    /\ lastEnd = ColdStore /\ prevEnd = ColdStore
    /\ clean = FALSE /\ immediate = FALSE
    /\ ledgerInit /\ now = <<2026, 1>>
    /\ prioInit
    /\ savingsInit /\ foreign_keys = FALSE
    /\ debtInit
    /\ lastOp = [name |-> "init"] /\ ops = 0

SpecRerun == InitRerun /\ [][NextMig]_vars

\* C13: the first run on a store that had exactly the steps 1..k applied
\* raises in no step and ends with the schema of a run on a cold store.
C13_Rerunnable ==
    /\ (runs = 0 /\ ops = 0) => pc # Failed
    /\ (runs = 1 /\ ops = 0 /\ pc = Idle) => SchemaOf(lastEnd) = SchemaOf(ColdRunEnd)

\* ---- a startup in which a statement can raise ---------------------------
\* the store refuses the first statement of a step (sqlite3.OperationalError:
\* the database is locked, the disk is full): nothing catches the exception,
\* init_db is left before its commit and the lifespan never yields
StepRaises ==
    /\ pc \in 1..NSteps
    /\ pc' = Failed
    /\ lastOp' = [name |-> "step_raised", step |-> pc]
    /\ UNCHANGED <<store, runs, lastEnd, prevEnd, clean, immediate, ops, otherThanMig>>

NextStartup ==
    \/ NextMig
    \/ StepRaises

SpecStartup == InitMig /\ [][NextStartup]_vars

\* C14: the run commits only from the position after the last step, and once
\* a step has raised the run stays failed: no commit is issued and no request
\* is served.
C14_CommitAfterAllSteps ==
    [][/\ runs' # runs => (pc = NSteps + 1 /\ pc' = Idle)
       /\ lastOp'.name = "app_insert" => pc = Idle
       /\ pc = Failed => /\ pc' = Failed
                         /\ runs' = runs /\ lastEnd' = lastEnd
                         /\ lastOp'.name # "app_insert"]_vars

\* a step of the second run raised after the first run had committed and the
\* application had written a row
C14_Witness ==
    /\ pc = Failed /\ lastOp.name = "step_raised"
    /\ runs = 1 /\ ops >= 1

\* ---- runs over tables that hold rows ------------------------------------
\* the running application writes a wishlist item (create_wishlist_item; the
\* old shape also carries custom_order)
AppInsertWishlistItem ==
    /\ pc = Idle /\ ops < MaxRows
    /\ HasTable(store, "wishlist_items")
    /\ LET vals == IF "custom_order" \in TableInfo(store, "wishlist_items")
                   THEN [wishlist_id |-> 1, name |-> "w", custom_order |-> "1"]
                   ELSE [wishlist_id |-> 1, name |-> "w"]
           r == Insert(store, "wishlist_items", vals)
       IN /\ ~r.err
          /\ store' = r
    /\ lastOp' = [name |-> "app_insert", table |-> "wishlist_items"]
    /\ clean' = FALSE
    /\ ops' = ops + 1
    /\ UNCHANGED <<pc, runs, lastEnd, prevEnd, immediate, otherThanMig>>

\* the running application deletes a row (delete_project,
\* delete_wishlist_item): sqlite_sequence keeps the id it reached
AppDeleteRow ==
    /\ pc = Idle /\ ops < MaxRows
    /\ \E t \in {"projects", "wishlist_items"} :
          /\ HasTable(store, t)
          /\ \E r \in store.tables[t].rows :
                store' = [store EXCEPT !.tables[t].rows = @ \ {r}]
          /\ lastOp' = [name |-> "app_delete", table |-> t]
    /\ clean' = FALSE
    /\ ops' = ops + 1
    /\ UNCHANGED <<pc, runs, lastEnd, prevEnd, immediate, otherThanMig>>

\* the three steps that recreate a table, labelled by what their guards find
Recreate005 ==
    MigStep(5, Up005(store),
            IF HasUniqueConstraint(store) /\ RowCount(store, "projects") > 0
            THEN "005 recreate" ELSE "005")

Recreate009 ==
    MigStep(9, Up009(store),
            IF HasTable(store, "projects")
               /\ "priority_order" \notin TableInfo(store, "projects")
            THEN "009 recreate" ELSE "009")

Recreate019 ==
    MigStep(18, Up019(store),
            IF "custom_order" \in TableInfo(store, "wishlist_items")
            THEN "019 recreate" ELSE "019")

NextRecreate ==
    \/ StartRun
    \/ M001 \/ M002 \/ M003 \/ M004 \/ Recreate005 \/ M006 \/ M007 \/ M008
    \/ Recreate009 \/ M010 \/ M011 \/ M012 \/ M013 \/ M014 \/ M016 \/ M017 \/ M018
    \/ Recreate019 \/ M020 \/ M021
    \/ EndRun
    \/ AppInsertProject
    \/ AppInsertWishlistItem
    \/ AppDeleteRow

SpecRecreate == InitRerun /\ [][NextRecreate]_vars

RecreatedTable ==
    [n \in {"005 recreate", "009 recreate", "019 recreate"} |->
        IF n = "019 recreate" THEN "wishlist_items" ELSE "projects"]

\* C15: a step that recreates projects (005, 009) or wishlist_items (019)
\* completes and leaves exactly the rows it found, each with its id and its
\* values in the columns that are kept, and a sequence that is not below the
\* largest id stored, so that the next id allocated is a new one.
C15_RecreateKeepsRows ==
    [][lastOp'.name \in DOMAIN RecreatedTable =>
         LET t == RecreatedTable[lastOp'.name]
             old == store.tables[t]
         IN /\ ~store'.err /\ HasTable(store', t)
            /\ LET new == store'.tables[t]
                   kept == old.cols \cap new.cols
               IN /\ {r["id"] : r \in new.rows} = {r["id"] : r \in old.rows}
                  /\ Cardinality(new.rows) = Cardinality(old.rows)
                  /\ \A r \in old.rows : \E q \in new.rows :
                        \A c \in kept : q[c] = r[c]
                  /\ new.rows # {} => SeqOf(store', t) >= MaxId(new.rows)
                  /\ NextId(store', t) \notin {r["id"] : r \in new.rows}]_vars

\* step 019 has recreated wishlist_items around two stored rows
C15_Witness ==
    /\ lastOp.name = "019 recreate"
    /\ Cardinality(store.tables["wishlist_items"].rows) = 2

\* ---- services/actual_expense_entries_services.py: the updates ----------
update_actual_expense_entry(d, entry_id, entry_update, existing) ==
    [d EXCEPT !.actual =
        {IF r.id = entry_id
         THEN [id |-> r.id,
               amount |-> Given(entry_update, "amount", existing.amount),
               date |-> Given(entry_update, "date", existing.date),
               item |-> Given(entry_update, "item", existing.item),
               category |-> Given(entry_update, "category", existing.category),
               currency |-> Given(entry_update, "currency", existing.currency)]
         ELSE r : r \in @}]

\* the values a field is not given for come from the first row fetched
bulk_update_actual_expense_entries(d, entry_ids, entry_update) ==
    LET existing_entries == {r \in d.actual : r.id \in Range(entry_ids)} IN
    IF entry_ids = <<>> \/ existing_entries = {} THEN d
    ELSE LET first_existing == RowOf(existing_entries, Min(IdsOf(existing_entries)))
             amount == Given(entry_update, "amount", first_existing.amount)
             date == Given(entry_update, "date", first_existing.date)
             item == Given(entry_update, "item", first_existing.item)
             category == Given(entry_update, "category", first_existing.category)
             currency == Given(entry_update, "currency", first_existing.currency)
         IN [d EXCEPT !.actual =
                {IF r.id \in Range(entry_ids)
                 THEN [id |-> r.id, amount |-> amount, date |-> date, item |-> item,
                       category |-> category, currency |-> currency]
                 ELSE r : r \in @}]

ActualUpdates == {[amount |-> a] : a \in Amounts} \cup {[date |-> x] : x \in Dates}

\* ---- routers/actual_expense_entries_router.py: the other handlers ------
ActualRouter_update_entry ==
    \E entry_id \in 1..(seqActual + 1), entry_update \in ActualUpdates :
        IF entry_id \notin IdsOf(actual)
        THEN Request("actual.update_entry", 404, DB, {}, {})
        ELSE Request("actual.update_entry", 200,
                     update_actual_expense_entry(DB, entry_id, entry_update,
                                                 RowOf(actual, entry_id)), {}, {})

ActualRouter_bulk_delete_entries ==
    \E entry_ids \in IdLists(actual, seqActual) :
        IF entry_ids = <<>>
        THEN Request("actual.bulk_delete_entries", 400, DB, {}, {})
        ELSE IF Range(entry_ids) \cap IdsOf(actual) = {}
        THEN Request("actual.bulk_delete_entries", 404, DB, {}, {})
        ELSE Request("actual.bulk_delete_entries", 200,
                     bulk_delete_actual_expense_entries(DB, entry_ids), {}, {})

ActualRouter_bulk_update_entries ==
    \E entry_ids \in IdLists(actual, seqActual), entry_update \in ActualUpdates :
        IF entry_ids = <<>>
        THEN Request("actual.bulk_update_entries", 400, DB, {}, {})
        ELSE IF Range(entry_ids) \cap IdsOf(actual) = {}
        THEN Request("actual.bulk_update_entries", 500, DB, {}, {})
        ELSE Request("actual.bulk_update_entries", 200,
                     bulk_update_actual_expense_entries(DB, entry_ids, entry_update),
                     {}, {})

ActualRouter_merge_entries ==
    \E entry_ids \in IdLists(actual, seqActual) :
        LET merged == merge_actual_expense_entries(DB, entry_ids)
        IN IF merged.err
           THEN Request("actual.merge_entries", 400, DB, {}, {})
           ELSE Request("actual.merge_entries", 200, merged, {}, {})

\* ---- the ledger with its balance entries --------------------------------
EmptyDB ==
    [income |-> {}, fixed |-> {}, actual |-> {},
     seqIncome |-> 0, seqFixed |-> 0, seqActual |-> 0, err |-> FALSE, calls |-> {}]

\* the ledger after its first request: a fixed expense of the month that
\* has just ended, created through the router
InitFirstExpense ==
    /\ restInit
    /\ \E entry \in FixedCreates :
          /\ "month" \in DOMAIN entry
          /\ is_previous_month(MonthStr(entry.year, entry.month))
          /\ LET created == create_fixed_expense_entry(EmptyDB, entry)
                 d == update_balance_entry_for_month(created, get_previous_month)
             IN /\ ~created.err
                /\ income = d.income /\ fixed = d.fixed /\ actual = d.actual
                /\ seqIncome = d.seqIncome /\ seqFixed = d.seqFixed
                /\ seqActual = d.seqActual

NextBalanceLedger ==
    \/ NextLedger
    \/ ActualRouter_update_entry
    \/ ActualRouter_bulk_delete_entries
    \/ ActualRouter_bulk_update_entries
    \/ ActualRouter_merge_entries
    \/ UpdateBalanceEntryForMonth

SpecBalanceLedger == InitFirstExpense /\ [][NextBalanceLedger]_vars

BalanceEntriesOf(rows, month) ==
    {r \in rows : r.item = format_month_name_for_balance(month)}

\* C16: whatever requests and recomputations have run, the income table and
\* the actual expense table each hold at most one row carrying the balance
\* label of a month.
C16_OneBalanceEntryPerMonth ==
    \A month \in Months :
        /\ Cardinality(BalanceEntriesOf(income, month)) <= 1
        /\ Cardinality(BalanceEntriesOf(actual, month)) <= 1

\* ---- what update_balance_entry_for_month hands back ---------------------
\* the entry returned by update_balance_entry_for_month(month) on the ledger
\* d, as a set: empty for None (the calculation raised, or the cash is zero)
BalanceEntryReturned(d, month) ==
    LET result == calculate_available_cash(d, month) IN
    IF result.err \/ result.available_cash = 0 THEN {}
    ELSE LET is_income == result.available_cash > 0
             existing == find_balance_entry_by_month(d, month, is_income)
             after == create_or_update_balance_entry(d, month, result.available_cash)
             rows == IF is_income THEN after.income ELSE after.actual
             id == IF existing # {} THEN (CHOOSE r \in existing : TRUE).id
                   ELSE IF is_income THEN after.seqIncome ELSE after.seqActual
         IN IF after.err THEN {} ELSE {r \in rows : r.id = id}

\* C17: a call of update_balance_entry_for_month for a month whose
\* recomputed available cash is exactly zero returns no entry and leaves the
\* three tables as they were: no row is inserted and a balance entry the
\* month already has, in either table, keeps its values.
C17_ZeroCashNoEntry ==
    [][(/\ lastOp'.name = "update_balance_entry_for_month"
        /\ ~calculate_available_cash(DB, lastOp'.month).err
        /\ calculate_available_cash(DB, lastOp'.month).available_cash = 0)
          => /\ BalanceEntryReturned(DB, lastOp'.month) = {}
             /\ UNCHANGED <<income, fixed, actual, seqIncome, seqFixed, seqActual>>]_vars

\* the month recomputed last has zero cash and a balance entry among its
\* actual expenses
C17_Witness ==
    /\ lastOp.name = "update_balance_entry_for_month"
    /\ calculate_available_cash(DB, lastOp.month).available_cash = 0
    /\ BalanceEntriesOf(actual, lastOp.month) # {}

\* ---- services/debt_services.py ------------------------------------------
\* SELECT ... FROM debt_entries ORDER BY id DESC (the order is left out)
get_all_debt_entries(debts) == debts

\* variant: the payment is subtracted without the floor at zero
get_debt_entries_with_monthly_reduction_unfloored(d, debts, month) ==
    IF ~validate_month_format(month) THEN [err |-> TRUE, entries |-> {}]
    ELSE LET all_debts == get_all_debt_entries(debts)
             fixed_expenses == get_all_fixed_expense_entries_by_month(d, month)
             adjusted(debt) ==
                 IF debt.linked_fixed_expense_id # Null("linked_fixed_expense_id")
                    /\ debt.linked_fixed_expense_id \in IdsOf(fixed_expenses)
                 THEN [debt EXCEPT !.current_balance =
                          @ - RowOf(fixed_expenses, debt.linked_fixed_expense_id).amount]
                 ELSE debt
         IN [err |-> FALSE, entries |-> {adjusted(debt) : debt \in all_debts}]

get_debt_entries_with_monthly_reduction(d, debts, month) ==
    IF ~validate_month_format(month) THEN [err |-> TRUE, entries |-> {}]
    ELSE LET all_debts == get_all_debt_entries(debts)
             fixed_expenses == get_all_fixed_expense_entries_by_month(d, month)
             adjusted(debt) ==
                 IF debt.linked_fixed_expense_id # Null("linked_fixed_expense_id")
                    /\ debt.linked_fixed_expense_id \in IdsOf(fixed_expenses)
                 THEN [debt EXCEPT !.current_balance =
                          Max({0, @ - RowOf(fixed_expenses,
                                            debt.linked_fixed_expense_id).amount})]
                 ELSE debt
         IN [err |-> FALSE, entries |-> {adjusted(debt) : debt \in all_debts}]

GetDebtEntriesWithMonthlyReduction ==
    \E month \in MonthInputs :
        LET result == get_debt_entries_with_monthly_reduction(DB, debt_entries, month) IN
        /\ lastOp' = [name |-> "get_debt_entries_with_monthly_reduction",
                      month |-> month, raised |-> result.err,
                      entries |-> result.entries]
        /\ UNCHANGED <<ops, ledgerVars, migVars, prioVars, savingsVars, debtVars>>

\* ---- debts over every small store ---------------------------------------
SeedDebtIds == {1, 2}

DebtBalances == {0, 1, 3}

\* NULL, the fixed expense 1, and a fixed expense that was deleted since
DebtLinks == {Null("linked_fixed_expense_id"), 1, 2}

SeedDebts(ids) ==
    UNION {{{[id |-> i, name |-> "d", initial_amount |-> Max(DebtBalances),
              current_balance |-> f[i][1], currency |-> "EUR",
              linked_fixed_expense_id |-> f[i][2]] : i \in I} :
            f \in [I -> DebtBalances \X DebtLinks]} :
           I \in SUBSET ids}

InitDebts ==
    /\ income = {} /\ actual = {} /\ seqIncome = 0 /\ seqActual = 0
    /\ fixed \in SeedFixed(SeedExpenseIds) /\ seqFixed = Max(SeedExpenseIds)
    /\ debt_entries \in SeedDebts(SeedDebtIds) /\ seqDebts = Max(SeedDebtIds)
    /\ store = ColdStore /\ pc = Idle /\ runs = 0
    /\ lastEnd = ColdStore /\ prevEnd = ColdStore
    /\ clean = FALSE /\ immediate = FALSE
    /\ now = <<2026, 1>>
    /\ recomputed = {}
    /\ mergePc = "idle" /\ mergeIds = <<>> /\ mergedId = 0
    /\ prioInit
    /\ savingsInit /\ foreign_keys = FALSE
    /\ lastOp = [name |-> "init"] /\ ops = 0

NextDebts == GetDebtEntriesWithMonthlyReduction

SpecDebts == InitDebts /\ [][NextDebts]_vars

\* the balance the read is to show for a debt in a month
ExpectedBalance(debt, month) ==
    LET of_month == {e \in fixed : /\ e.id = debt.linked_fixed_expense_id
                                   /\ e.year = month[1] /\ e.month = month[2]}
    IN IF debt.linked_fixed_expense_id = Null("linked_fixed_expense_id")
          \/ of_month = {}
       THEN debt.current_balance
       ELSE Max({0, debt.current_balance - (CHOOSE e \in of_month : TRUE).amount})

\* C18: a read of the debts for a valid month returns every stored debt
\* once; a debt without a link, or whose linked fixed expense is not of that
\* month, comes with its stored current_balance, a debt whose linked fixed
\* expense is of that month with amount x comes with
\* max(0, current_balance - x); nothing else of the debt differs and the
\* stored debts are the same before and after the read.
C18_MonthlyReduction ==
    [][(lastOp'.name = "get_debt_entries_with_monthly_reduction" /\ ~lastOp'.raised)
          => /\ lastOp'.entries =
                   {[debt EXCEPT !.current_balance = ExpectedBalance(debt, lastOp'.month)] :
                        debt \in debt_entries}
             /\ {e.id : e \in lastOp'.entries} = IdsOf(debt_entries)
             /\ debt_entries' = debt_entries /\ fixed' = fixed]_vars

\* a read has shown a debt of 1 as 0 because the fixed expense it is linked
\* to takes 2 in that month, next to a debt without a link
C18_Witness ==
    /\ lastOp.name = "get_debt_entries_with_monthly_reduction" /\ ~lastOp.raised
    /\ \E debt \in debt_entries, e \in fixed :
          /\ debt.linked_fixed_expense_id = e.id /\ debt.current_balance = 1
          /\ e.amount = 2 /\ <<e.year, e.month>> = lastOp.month
          /\ \E shown \in lastOp.entries : shown.id = debt.id /\ shown.current_balance = 0
    /\ \E debt \in debt_entries :
          debt.linked_fixed_expense_id = Null("linked_fixed_expense_id")

\* ---- services/projects_services.py: progress ----------------------------
get_project_by_id(p, project_id) == {r \in p.projects : r.id = project_id}

\* SELECT ... FROM contributions WHERE savings_account_id = ?
get_all_contributions(s, savings_account_id) ==
    {c \in s.contributions : c.savings_account_id = savings_account_id}

\* a percentage is kept as the exact fraction num / den
Percentage(num, den) == [num |-> num, den |-> den]

\* services/project_services.py: the percentage capped to 0..100
calculate_progress_percentage(current_savings, target_amount) ==
    IF target_amount <= 0 THEN Percentage(0, 1)
    ELSE IF current_savings * 100 > 100 * target_amount THEN Percentage(100, 1)
    ELSE IF current_savings * 100 < 0 THEN Percentage(0, 1)
    ELSE Percentage(current_savings * 100, target_amount)

\* account["initial_balance"] is read from the dict that
\* get_savings_account_by_id builds from its SELECT: a key the dict does not
\* have raises KeyError
calculate_project_progress(p, s, project_id) ==
    LET project == get_project_by_id(p, project_id) IN
    IF project = {} THEN [err |-> "ValidationError", data |-> {}]
    ELSE LET pr == CHOOSE r \in project : TRUE
             account == IF pr.savings_account_id # Null("savings_account_id")
                        THEN get_savings_account_by_id(s, pr.savings_account_id)
                        ELSE {}
             target_amount == pr.target_amount
             answer(current_balance) ==
                 [err |-> "",
                  data |-> {[project_id |-> project_id,
                             target_amount |-> target_amount,
                             current_balance |-> current_balance,
                             progress_percentage |->
                                 IF target_amount > 0
                                 THEN Percentage(current_balance * 100, target_amount)
                                 ELSE Percentage(0, 1),
                             status |-> pr.status]}]
         IN IF account = {} THEN answer(0)
            ELSE LET acc == CHOOSE a \in account : TRUE IN
                 IF "initial_balance" \notin DOMAIN acc
                 THEN [err |-> "KeyError", data |-> {}]
                 ELSE answer(acc["initial_balance"]
                             + SumAmounts(get_all_contributions(s, acc.id)))

\* ---- routers/projects_router.py: GET /{project_id}/progress -------------
get_project_progress ==
    \E project_id \in 1..(seqProjects + 1) :
        LET progress_data == calculate_project_progress(PR, SV, project_id) IN
        /\ lastOp' = [name |-> "get_project_progress", project_id |-> project_id,
                      status |-> IF progress_data.err = "" THEN 200
                                 ELSE IF progress_data.err = "ValidationError" THEN 400
                                 ELSE 500,
                      data |-> progress_data.data]
        /\ UNCHANGED <<ops, ledgerVars, migVars, prioVars, savingsVars, debtVars>>

\* ---- projects next to the savings accounts ------------------------------
TargetAmounts == {0, 1000, 1500}

\* NULL, the account 1, and an account that was deleted since
AccountLinks == {Null("savings_account_id"), 1, 2}

SeedAccounts == {{}, {[id |-> 1, base_balance |-> 0]}, {[id |-> 1, base_balance |-> 1000]}}

SeedContributions ==
    SUBSET {[id |-> 1, savings_account_id |-> 1, amount |-> 200],
            [id |-> 2, savings_account_id |-> 1, amount |-> 300]}

InitProgress ==
    /\ store = ColdStore /\ pc = Idle /\ runs = 0
    /\ lastEnd = ColdStore /\ prevEnd = ColdStore
    /\ clean = FALSE /\ immediate = FALSE
    /\ ledgerInit /\ now = <<2026, 1>>
    /\ debtInit
    /\ wishlists = {1, 2} /\ wishlist_items = {} /\ seqItems = 0
    /\ \E target_amount \in TargetAmounts, savings_account_id \in AccountLinks :
          projects = {[id |-> 1, priority_order |-> 1, status |-> "Active",
                       target_amount |-> target_amount,
                       savings_account_id |-> savings_account_id]}
    /\ seqProjects = 1
    /\ savings_accounts \in SeedAccounts /\ seqAccounts = 2
    /\ contributions \in (IF savings_accounts = {} THEN {{}} ELSE SeedContributions)
    /\ seqContributions = 2
    /\ foreign_keys = FALSE
    /\ lastOp = [name |-> "init"] /\ ops = 0

NextProgress ==
    \/ get_project_progress
    \/ create_account
    \/ create_contribution_entry

SpecProgress == InitProgress /\ [][NextProgress]_vars

LinkedAccount(project) ==
    {a \in savings_accounts : a.id = project.savings_account_id}

\* C19: the progress of a stored project is returned; with an existing
\* linked savings account its current_balance is that account's base_balance
\* plus the sum of that account's contributions, and with no linked account
\* it is 0.
C19_CurrentBalance ==
    [][(lastOp'.name = "get_project_progress"
        /\ lastOp'.project_id \in IdsOf(projects))
          => LET project == RowOf(projects, lastOp'.project_id)
                 account == LinkedAccount(project)
             IN /\ lastOp'.status = 200
                /\ \A d \in lastOp'.data :
                      d.current_balance =
                          IF account = {} THEN 0
                          ELSE (CHOOSE a \in account : TRUE).base_balance
                               + SumAmounts({c \in contributions :
                                                c.savings_account_id
                                                    = project.savings_account_id})]_vars

\* C20: the progress of a stored project is returned with a
\* progress_percentage between 0 and 100 when target_amount > 0, and of 0
\* when target_amount is not positive.
C20_PercentageInRange ==
    [][(lastOp'.name = "get_project_progress"
        /\ lastOp'.project_id \in IdsOf(projects))
          => LET project == RowOf(projects, lastOp'.project_id)
             IN /\ lastOp'.status = 200
                /\ \A d \in lastOp'.data :
                      LET pct == d.progress_percentage
                      IN IF project.target_amount > 0
                         THEN 0 <= pct.num /\ pct.num <= 100 * pct.den
                         ELSE pct.num = 0]_vars

\* ---- debts and the fixed expenses they are linked to --------------------
\* FOREIGN KEY (linked_fixed_expense_id) REFERENCES fixed_expense_entries(id)
\* ON DELETE SET NULL, on a connection that enforces foreign keys (fk) or not
OnDeleteSetNull(debts, deleted_ids, fk) ==
    IF ~fk THEN debts
    ELSE {IF debt.linked_fixed_expense_id \in deleted_ids
          THEN [debt EXCEPT !.linked_fixed_expense_id = Null("linked_fixed_expense_id")]
          ELSE debt : debt \in debts}

\* a call of a fixed expense service that deletes rows, with what the store
\* does to the debts
FixedDeletion(name, d) ==
    /\ ops < MaxFixedDeletes
    /\ Commit(d)
    /\ debt_entries' = OnDeleteSetNull(debt_entries, IdsOf(fixed) \ IdsOf(d.fixed),
                                       foreign_keys)
    /\ lastOp' = [name |-> name, deleted |-> IdsOf(fixed) \ IdsOf(d.fixed)]
    /\ ops' = ops + 1
    /\ UNCHANGED <<seqDebts, now, mergePc, mergeIds, mergedId, migVars, prioVars,
                   savingsVars>>

DeleteFixedExpenseEntry ==
    \E entry_id \in 1..(seqFixed + 1) :
        FixedDeletion("delete_fixed_expense_entry",
                      delete_fixed_expense_entry(DB, entry_id))

BulkDeleteFixedExpenseEntries ==
    \E entry_ids \in IdLists(fixed, seqFixed) :
        FixedDeletion("bulk_delete_fixed_expense_entries",
                      bulk_delete_fixed_expense_entries(DB, entry_ids))

MergeFixedExpenseEntriesWithDebts ==
    \E entry_ids \in IdLists(fixed, seqFixed) :
        FixedDeletion("merge_fixed_expense_entries",
                      merge_fixed_expense_entries(DB, entry_ids))

SeedLinkedFixedIds == {1, 2}

\* debts as create_debt_entry leaves them: linked to a stored fixed expense
\* or to none
SeedLinkedDebts(ids, fixed_ids) ==
    UNION {{{[id |-> i, name |-> "d", initial_amount |-> 3, current_balance |-> 1,
              currency |-> "EUR", linked_fixed_expense_id |-> f[i]] : i \in I} :
            f \in [I -> fixed_ids \cup {Null("linked_fixed_expense_id")}]} :
           I \in SUBSET ids}

InitDebtLinks ==
    /\ income = {} /\ actual = {} /\ seqIncome = 0 /\ seqActual = 0
    /\ fixed \in SeedFixed(SeedLinkedFixedIds) /\ seqFixed = Max(SeedLinkedFixedIds)
    /\ debt_entries \in SeedLinkedDebts(SeedDebtIds, IdsOf(fixed))
    /\ seqDebts = Max(SeedDebtIds)
    /\ store = ColdStore /\ pc = Idle /\ runs = 0
    /\ lastEnd = ColdStore /\ prevEnd = ColdStore
    /\ clean = FALSE /\ immediate = FALSE
    /\ now = <<2026, 1>>
    /\ recomputed = {}
    /\ mergePc = "idle" /\ mergeIds = <<>> /\ mergedId = 0
    /\ prioInit
    /\ savingsInit /\ foreign_keys \in get_connection
    /\ lastOp = [name |-> "init"] /\ ops = 0

NextDebtLinks ==
    \/ DeleteFixedExpenseEntry
    \/ BulkDeleteFixedExpenseEntries
    \/ MergeFixedExpenseEntriesWithDebts

SpecDebtLinks == InitDebtLinks /\ [][NextDebtLinks]_vars

\* C21: when fixed expenses are deleted (one, several, or the sources of a
\* merge), every debt that referenced one of them is still stored and its
\* linked_fixed_expense_id is null; in every state reached no debt references
\* a fixed expense id that is not stored.
C21_LinkNullifiedOnDelete ==
    [][/\ \A debt \in debt_entries :
             debt.linked_fixed_expense_id \in IdsOf(fixed) \ IdsOf(fixed')
                => \E kept \in debt_entries' :
                      /\ kept.id = debt.id
                      /\ kept.linked_fixed_expense_id = Null("linked_fixed_expense_id")
       /\ \A debt \in debt_entries' :
             debt.linked_fixed_expense_id # Null("linked_fixed_expense_id")
                => debt.linked_fixed_expense_id \in IdsOf(fixed')]_vars

\* ---- services/debt_services.py: create and update -----------------------
DE ==
    [debt_entries |-> debt_entries, seqDebts |-> seqDebts, fixed |-> fixed,
     err |-> FALSE]

get_fixed_expense_entry_by_id(e, entry_id) == {r \in e.fixed : r.id = entry_id}

get_debt_entry_by_id(e, entry_id) == {r \in e.debt_entries : r.id = entry_id}

create_debt_entry(e, entry) ==
    IF entry.initial_amount < 0 THEN [e EXCEPT !.err = TRUE]
    ELSE IF entry.current_balance < 0 THEN [e EXCEPT !.err = TRUE]
    ELSE IF entry.current_balance > entry.initial_amount THEN [e EXCEPT !.err = TRUE]
    ELSE IF /\ entry.linked_fixed_expense_id # Null("linked_fixed_expense_id")
            /\ get_fixed_expense_entry_by_id(e, entry.linked_fixed_expense_id) = {}
    THEN [e EXCEPT !.err = TRUE]
    ELSE [e EXCEPT !.debt_entries =
                       @ \cup {[id |-> e.seqDebts + 1, name |-> entry.name,
                                initial_amount |-> entry.initial_amount,
                                current_balance |-> entry.current_balance,
                                currency |-> "EUR",
                                linked_fixed_expense_id |-> entry.linked_fixed_expense_id]},
                   !.seqDebts = @ + 1]

\* variant: the balance is not held against the initial amount
update_debt_entry_without_ceiling(e, entry_id, entry_update, existing) ==
    LET name == Given(entry_update, "name", existing.name)
        initial_amount == Given(entry_update, "initial_amount", existing.initial_amount)
        current_balance == Given(entry_update, "current_balance", existing.current_balance)
        linked_fixed_expense_id ==
            Given(entry_update, "linked_fixed_expense_id", existing.linked_fixed_expense_id)
    IN IF initial_amount < 0 THEN [e EXCEPT !.err = TRUE]
       ELSE IF current_balance < 0 THEN [e EXCEPT !.err = TRUE]
       ELSE IF /\ linked_fixed_expense_id # Null("linked_fixed_expense_id")
               /\ get_fixed_expense_entry_by_id(e, linked_fixed_expense_id) = {}
       THEN [e EXCEPT !.err = TRUE]
       ELSE [e EXCEPT !.debt_entries =
                {IF r.id = entry_id
                 THEN [r EXCEPT !.name = name, !.initial_amount = initial_amount,
                                !.current_balance = current_balance,
                                !.linked_fixed_expense_id = linked_fixed_expense_id]
                 ELSE r : r \in @}]

update_debt_entry(e, entry_id, entry_update, existing) ==
    LET name == Given(entry_update, "name", existing.name)
        initial_amount == Given(entry_update, "initial_amount", existing.initial_amount)
        current_balance == Given(entry_update, "current_balance", existing.current_balance)
        linked_fixed_expense_id ==
            Given(entry_update, "linked_fixed_expense_id", existing.linked_fixed_expense_id)
    IN IF initial_amount < 0 THEN [e EXCEPT !.err = TRUE]
       ELSE IF current_balance < 0 THEN [e EXCEPT !.err = TRUE]
       ELSE IF current_balance > initial_amount THEN [e EXCEPT !.err = TRUE]
       ELSE IF /\ linked_fixed_expense_id # Null("linked_fixed_expense_id")
               /\ get_fixed_expense_entry_by_id(e, linked_fixed_expense_id) = {}
       THEN [e EXCEPT !.err = TRUE]
       ELSE [e EXCEPT !.debt_entries =
                {IF r.id = entry_id
                 THEN [r EXCEPT !.name = name, !.initial_amount = initial_amount,
                                !.current_balance = current_balance,
                                !.linked_fixed_expense_id = linked_fixed_expense_id]
                 ELSE r : r \in @}]

\* a call of a debt service; initial_amount and current_balance are the
\* values the call asks the row to have
DebtCall(name, e, initial_amount, current_balance) ==
    /\ ops < MaxDebtOps
    /\ debt_entries' = e.debt_entries /\ seqDebts' = e.seqDebts
    /\ lastOp' = [name |-> name, raised |-> e.err, initial_amount |-> initial_amount,
                  current_balance |-> current_balance]
    /\ ops' = ops + 1
    /\ UNCHANGED <<ledgerVars, migVars, prioVars, savingsVars>>

DebtAmounts == {0 - 1, 0, 1, 2}

DebtUpdates ==
    {[initial_amount |-> a] : a \in DebtAmounts}
    \cup {[current_balance |-> a] : a \in DebtAmounts}
    \cup {[initial_amount |-> a, current_balance |-> b] : a, b \in {1, 2}}

CreateDebtEntry ==
    \E initial_amount \in DebtAmounts, current_balance \in DebtAmounts,
       linked_fixed_expense_id \in DebtLinks :
        DebtCall("create_debt_entry",
                 create_debt_entry(DE, [name |-> "d", initial_amount |-> initial_amount,
                                        current_balance |-> current_balance,
                                        linked_fixed_expense_id |-> linked_fixed_expense_id]),
                 initial_amount, current_balance)

\* routers/debt_router.py fetches the row first and answers 404 without it
UpdateDebtEntry ==
    \E entry_id \in IdsOf(debt_entries), entry_update \in DebtUpdates :
        LET existing == CHOOSE r \in get_debt_entry_by_id(DE, entry_id) : TRUE IN
        DebtCall("update_debt_entry",
                 update_debt_entry(DE, entry_id, entry_update, existing),
                 Given(entry_update, "initial_amount", existing.initial_amount),
                 Given(entry_update, "current_balance", existing.current_balance))

InitDebtCalls ==
    /\ income = {} /\ actual = {} /\ seqIncome = 0 /\ seqActual = 0
    /\ fixed \in SeedFixed(SeedExpenseIds) /\ seqFixed = Max(SeedExpenseIds)
    /\ debtInit
    /\ store = ColdStore /\ pc = Idle /\ runs = 0
    /\ lastEnd = ColdStore /\ prevEnd = ColdStore
    /\ clean = FALSE /\ immediate = FALSE
    /\ now = <<2026, 1>>
    /\ recomputed = {}
    /\ mergePc = "idle" /\ mergeIds = <<>> /\ mergedId = 0
    /\ prioInit
    /\ savingsInit /\ foreign_keys = FALSE
    /\ lastOp = [name |-> "init"] /\ ops = 0

NextDebtCalls == CreateDebtEntry \/ UpdateDebtEntry

SpecDebtCalls == InitDebtCalls /\ [][NextDebtCalls]_vars

\* C22: whatever calls of create_debt_entry and update_debt_entry were made,
\* every stored debt has 0 <= current_balance <= initial_amount, and a call
\* asking for amounts outside that raises and leaves the debts as they were.
C22_BalanceWithinInitial ==
    [][/\ \A debt \in debt_entries' :
             0 <= debt.current_balance /\ debt.current_balance <= debt.initial_amount
       /\ (/\ lastOp'.name \in {"create_debt_entry", "update_debt_entry"}
           /\ ~(0 <= lastOp'.current_balance
                /\ lastOp'.current_balance <= lastOp'.initial_amount))
             => lastOp'.raised /\ UNCHANGED debtVars]_vars

\* an update asking for a balance above the initial amount of a stored debt
\* was refused
C22_Witness ==
    /\ lastOp.name = "update_debt_entry" /\ lastOp.raised
    /\ lastOp.current_balance > lastOp.initial_amount /\ lastOp.initial_amount >= 0
    /\ debt_entries # {}

\* C23: whatever creates, updates, bulk updates and merges were requested on
\* the three tables, every stored entry has amount >= 0 (an operation
\* carrying a negative amount is refused and stores nothing).
C23_NonNegativeAmounts ==
    \A r \in income \cup fixed \cup actual : r.amount >= 0

\* ======================================================================
\* Purchase of wishlist items (services/wishlist_items_services.py)
\* ======================================================================
\* the router fetches the existing item and answers 404 without it
MarkWishlistItem ==
    \E item_id \in ItemIdInputs, purchased \in BOOLEAN :
        IF item_id \notin IdsOf(wishlist_items)
        THEN PrioCall("update_wishlist_item", [PR EXCEPT !.err = TRUE], 0)
        ELSE PrioCall("update_wishlist_item",
                      update_wishlist_item(PR, item_id, [purchased |-> purchased],
                                           RowOf(wishlist_items, item_id)), 0)

BulkPurchaseItems ==
    \E item_ids \in ItemIdLists, purchased \in BOOLEAN :
        PrioCall("bulk_purchase_items", bulk_purchase_items(PR, item_ids, purchased), 0)

NextPurchase ==
    \/ CreateWishlistItem
    \/ MarkWishlistItem
    \/ BulkPurchaseItems

SpecPurchase == InitPrio /\ [][NextPurchase]_vars

\* C24: every item has a purchased_at exactly when it is purchased, and an
\* item that is purchased before and after a call (it was marked again, or
\* left alone) keeps the purchased_at it had.
C24_PurchasedAtFollowsPurchased ==
    [][/\ \A r \in wishlist_items' : (r.purchased_at # NoPurchase) <=> r.purchased
       /\ \A r \in wishlist_items, s \in wishlist_items' :
             r.id = s.id /\ r.purchased /\ s.purchased
                 => s.purchased_at = r.purchased_at]_vars

\* ======================================================================
\* Moving a wishlist item to another priority
\* (services/wishlist_items_services.py, update_wishlist_item)
\* ======================================================================
\* three items to create
SeedEntries == [1..3 -> [wishlist_id : wishlists, priority : 1..2, amount : {10}]]

RECURSIVE CreateAll(_, _)
\* the items of the start, created one after the other
CreateAll(p, entries) ==
    IF entries = <<>> THEN p
    ELSE CreateAll(create_wishlist_item(p, Head(entries)), Tail(entries))

InitShift ==
    /\ store = ColdStore /\ pc = Idle /\ runs = 0
    /\ lastEnd = ColdStore /\ prevEnd = ColdStore
    /\ clean = FALSE /\ immediate = FALSE
    /\ ledgerInit /\ now = <<2026, 1>>
    /\ wishlists = {1, 2} /\ projects = {} /\ seqProjects = 0
    /\ \E entries \in SeedEntries :
          LET p == CreateAll([wishlist_items |-> {}, projects |-> {}, seqItems |-> 0,
                              seqProjects |-> 0, err |-> FALSE, time |-> 0], entries)
          IN wishlist_items = p.wishlist_items /\ seqItems = p.seqItems
    /\ savingsInit /\ foreign_keys = FALSE
    /\ debtInit
    /\ lastOp = [name |-> "init"] /\ ops = 0

\* the router fetches the existing item and answers 404 without it
UpdateWishlistItemPriority ==
    \E item_id \in ItemIdInputs, priority \in Priorities :
        /\ ops < MaxPrioOps
        /\ item_id \in IdsOf(wishlist_items)
        /\ LET existing == RowOf(wishlist_items, item_id)
               p == update_wishlist_item(PR, item_id, [priority |-> priority], existing)
           IN /\ wishlist_items' = p.wishlist_items
              /\ lastOp' = [name |-> "update_wishlist_item", ok |-> TRUE,
                            item_id |-> item_id, priority |-> priority,
                            previous |-> existing.priority,
                            shifted |-> Cardinality(ItemsToShift(PR, item_id, priority,
                                                                 existing))]
        /\ ops' = ops + 1
        /\ UNCHANGED <<wishlists, projects, seqItems, seqProjects,
                       migVars, ledgerVars, savingsVars, debtVars>>

NextShift ==
    \/ UpdateWishlistItemPriority
    \/ MoveItemsToWishlist

SpecShift == InitShift /\ [][NextShift]_vars

\* the priority update_wishlist_item owes to row r when item A of wishlist w
\* goes from priority p to priority P
PriorityAfterMove(r, A, w, p, P) ==
    IF r.id = A THEN P
    ELSE IF r.wishlist_id = w /\ P < p /\ r.priority >= P /\ r.priority < p
    THEN r.priority + 1
    ELSE IF r.wishlist_id = w /\ P > p /\ r.priority > p /\ r.priority <= P
    THEN r.priority - 1
    ELSE r.priority

\* C25: update_wishlist_item moving item A from p to P gives A priority P,
\* moves every other item of the same wishlist inside the displaced range
\* by exactly one slot (+1 in [P, p) when P < p, -1 in (p, P] when P > p),
\* and leaves the priority of every other item, of this and of any other
\* wishlist, as it was.
C25_ShiftWithinRange ==
    [][lastOp'.name = "update_wishlist_item" =>
          LET A == lastOp'.item_id
              moved == RowOf(wishlist_items, A)
          IN /\ IdsOf(wishlist_items') = IdsOf(wishlist_items)
             /\ \A r \in wishlist_items :
                   LET s == RowOf(wishlist_items', r.id)
                   IN /\ s.priority = PriorityAfterMove(r, A, moved.wishlist_id,
                                                        moved.priority, lastOp'.priority)
                      /\ s.wishlist_id = r.wishlist_id]_vars

\* item A has just gone from 3 to 1 or from 1 to 3 and an item of its
\* wishlist made room, while another wishlist holds an item inside the range
C25_Witness ==
    /\ lastOp.name = "update_wishlist_item"
    /\ {lastOp.previous, lastOp.priority} = {1, 3}
    /\ lastOp.shifted >= 1
    /\ \E a \in wishlist_items :
          /\ a.id = lastOp.item_id /\ a.priority = lastOp.priority
          /\ \E r \in wishlist_items :
                r.wishlist_id # a.wishlist_id /\ r.priority = 2

\* ======================================================================
\* Swapping neighbours in a ranking
\* (swap_wishlist_item_priority, swap_project_priorities)
\* ======================================================================
MaxSwapOps == 2

\* 1000001 is the value swap_project_priorities parks project 1 on
SeedProjectPriorities == {1, 2, 1000001}

SeedProjectEntries == [1..3 -> [priority_order : SeedProjectPriorities]]

RECURSIVE CreateProjects(_, _)
\* the projects of the start, created one after the other; a refused
\* creation leaves nothing
CreateProjects(p, entries) ==
    IF entries = <<>> THEN p
    ELSE LET created == create_project(p, Head(entries))
         IN CreateProjects(IF created.err THEN p ELSE created, Tail(entries))

InitSwap ==
    /\ store = ColdStore /\ pc = Idle /\ runs = 0
    /\ lastEnd = ColdStore /\ prevEnd = ColdStore
    /\ clean = FALSE /\ immediate = FALSE
    /\ ledgerInit /\ now = <<2026, 1>>
    /\ wishlists = {1, 2}
    /\ \E entries \in SeedEntries, project_entries \in SeedProjectEntries :
          LET empty == [wishlist_items |-> {}, projects |-> {}, seqItems |-> 0,
                        seqProjects |-> 0, err |-> FALSE, time |-> 0]
              p == CreateProjects(CreateAll(empty, entries), project_entries)
          IN /\ wishlist_items = p.wishlist_items /\ seqItems = p.seqItems
             /\ projects = p.projects /\ seqProjects = p.seqProjects
    /\ savingsInit /\ foreign_keys = FALSE
    /\ debtInit
    /\ lastOp = [name |-> "init"] /\ ops = 0

\* what a swap leaves: nothing when it raised
SwapCall(name, p, id, direction) ==
    /\ ops < MaxSwapOps
    /\ wishlist_items' = IF p.err THEN wishlist_items ELSE p.wishlist_items
    /\ projects' = IF p.err THEN projects ELSE p.projects
    /\ lastOp' = [name |-> name, ok |-> ~p.err, id |-> id, direction |-> direction]
    /\ ops' = ops + 1
    /\ UNCHANGED <<wishlists, seqItems, seqProjects,
                   migVars, ledgerVars, savingsVars, debtVars>>

SwapPriority ==
    \E item_id \in ItemIdInputs, direction \in Directions :
        SwapCall("swap_wishlist_item_priority",
                 swap_wishlist_item_priority(PR, item_id, direction), item_id, direction)

SwapProjectPriority ==
    \E project_id \in ProjectIdInputs, direction \in Directions :
        SwapCall("swap_project_priorities",
                 swap_project_priorities(PR, project_id, direction), project_id, direction)

NextSwap ==
    \/ SwapPriority
    \/ SwapProjectPriority

SpecSwap == InitSwap /\ [][NextSwap]_vars

\* a row of either ranking: its id, the scope it is ranked in, its rank
ItemRanks(rows) ==
    {[id |-> r.id, scope |-> r.wishlist_id, rank |-> r.priority] : r \in rows}

ProjectRanks(rows) ==
    {[id |-> r.id, scope |-> 0, rank |-> r.priority_order] : r \in rows}

\* what the statement asks of one swap of row id, from the ranks before to
\* the ranks after
SwapOutcome(before, after, id, direction, ok) ==
    /\ ~ok => after = before
    /\ \A m \in {r \in before : r.id = id} :
          LET target == IF direction = "up" THEN m.rank - 1 ELSE m.rank + 1
              adjacent == {r \in before : r.scope = m.scope /\ r.rank = target}
          IN /\ (adjacent = {} \/ (m.rank = 1 /\ direction = "up")) => ~ok
             /\ ok => \E a \in adjacent :
                         after = (before \ {m, a}) \cup
                                 {[m EXCEPT !.rank = target], [a EXCEPT !.rank = m.rank]}
    /\ \A r \in after : r.rank = 1000000 + r.id => r \in before

\* C26: a swap exchanges the priorities of the moved row and of one row
\* holding the adjacent priority in the same scope and changes no other
\* priority; without an adjacent row, or up from priority 1, it raises; a
\* swap that raised changed no priority; and no row is left on 1000000 + id
\* by a swap, completed or failed.
C26_SwapExchangesNeighbours ==
    [][/\ lastOp'.name = "swap_wishlist_item_priority" =>
            /\ SwapOutcome(ItemRanks(wishlist_items), ItemRanks(wishlist_items'),
                           lastOp'.id, lastOp'.direction, lastOp'.ok)
            /\ projects' = projects
       /\ lastOp'.name = "swap_project_priorities" =>
            /\ SwapOutcome(ProjectRanks(projects), ProjectRanks(projects'),
                           lastOp'.id, lastOp'.direction, lastOp'.ok)
            /\ wishlist_items' = wishlist_items]_vars

\* a project has just changed places with its neighbour while a third
\* project, ranked elsewhere, and a wishlist of three items were in store
C26_Witness ==
    /\ lastOp.name = "swap_project_priorities" /\ lastOp.ok
    /\ Cardinality(projects) = 3
    /\ \E m \in projects :
          /\ m.id = lastOp.id
          /\ m.priority_order = IF lastOp.direction = "up" THEN 1 ELSE 2
    /\ \E w \in wishlists :
          Cardinality({r \in wishlist_items : r.wishlist_id = w}) = 3

\* ======================================================================
\* Bulk updates called with a partial payload
\* (bulk_update_income_entries, bulk_update_fixed_expense_entries,
\*  bulk_update_actual_expense_entries)
\* ======================================================================
MaxBulkCalls == 1

\* a call of a bulk update service
BulkUpdateCall(table, entry_ids, entry_update, d) ==
    /\ ops < MaxBulkCalls
    /\ Commit(d)
    /\ lastOp' = [name |-> "bulk_update", table |-> table, entry_ids |-> entry_ids,
                  entry_update |-> entry_update]
    /\ ops' = ops + 1
    /\ UNCHANGED <<now, mergePc, mergeIds, mergedId, migVars, prioVars, savingsVars, debtVars>>

BulkUpdateIncomeEntries ==
    \E entry_ids \in IdLists(income, seqIncome), entry_update \in IncomeUpdates :
        BulkUpdateCall("income", entry_ids, entry_update,
                       bulk_update_income_entries(DB, entry_ids, entry_update))

BulkUpdateFixedExpenseEntries ==
    \E entry_ids \in IdLists(fixed, seqFixed), entry_update \in FixedUpdates :
        BulkUpdateCall("fixed", entry_ids, entry_update,
                       bulk_update_fixed_expense_entries(DB, entry_ids, entry_update))

BulkUpdateActualExpenseEntries ==
    \E entry_ids \in IdLists(actual, seqActual), entry_update \in ActualUpdates :
        BulkUpdateCall("actual", entry_ids, entry_update,
                       bulk_update_actual_expense_entries(DB, entry_ids, entry_update))

NextBulkCalls ==
    \/ BulkUpdateIncomeEntries
    \/ BulkUpdateFixedExpenseEntries
    \/ BulkUpdateActualExpenseEntries

SpecBulkCalls == InitMergeCalls /\ [][NextBulkCalls]_vars

\* the table as the step leaves it
TableAfter(table) ==
    CASE table = "income" -> income' [] table = "fixed" -> fixed' [] OTHER -> actual'

\* C27: a bulk update with a partial payload leaves every entry that is not
\* targeted as it was, and on every targeted entry every field the payload
\* omits keeps the value that entry had.
C27_OmittedFieldsKept ==
    [][lastOp'.name = "bulk_update" =>
          LET before == TableOf(lastOp'.table)
              after == TableAfter(lastOp'.table)
              ids == Range(lastOp'.entry_ids)
          IN /\ IdsOf(after) = IdsOf(before)
             /\ \A r \in before :
                   IF r.id \notin ids THEN r \in after
                   ELSE \A field \in DOMAIN r \ DOMAIN lastOp'.entry_update :
                           RowOf(after, r.id)[field] = r[field]]_vars

\* ======================================================================
\* Money through a merge
\* ======================================================================
\* C28: a merge that went through leaves the sum of the amounts stored in
\* its table as it was, whatever the accepted id list, one naming the same
\* id more than once included.
C28_MergeConservesTotal ==
    [][(lastOp'.name = "merge" /\ ~lastOp'.raised)
          => SumAmounts(TableAfter(lastOp'.table)) = SumAmounts(TableOf(lastOp'.table))]_vars

\* ======================================================================
\* The balance entry of a month when the sign of its cash changes
\* ======================================================================
\* C29: whatever income and fixed expense requests have run, each with the
\* recomputation it triggers, no month has a row carrying its balance label
\* in the income table and another in the actual expense table.
C29_BalanceEntryOnOneSide ==
    \A month \in Months :
        BalanceEntriesOf(income, month) = {} \/ BalanceEntriesOf(actual, month) = {}

\* ======================================================================
\* Moving items to another wishlist
\* ======================================================================
\* C30: from priorities that are unique within every wishlist, a completed
\* move_items_to_wishlist leaves no two items of one wishlist, the target or
\* a source, on the same priority.
C30_MoveKeepsPrioritiesUnique ==
    [][(lastOp'.name = "move_items_to_wishlist" /\ lastOp'.ok /\ UniquePriorities)
          => \A a \in wishlist_items' : \A b \in wishlist_items' :
                (a.id # b.id /\ a.wishlist_id = b.wishlist_id)
                    => a.priority # b.priority]_vars

====
